---- MODULE Spec2Model ----
(***************************************************************************)
(* A model of the Electrum wallet core: the deterministic wallet of        *)
(* client/electrum.py (address lists, per-address history, gap-limit       *)
(* synchronisation, balance, transaction construction, the wallet file)    *)
(* and the SPV verifier of lib/verifier.py.                                *)
(*                                                                         *)
(* The remote server is untrusted: every answer it gives (a history, a     *)
(* poll result, a Merkle branch) is an input drawn from a small set.       *)
(***************************************************************************)
EXTENDS Integers, Sequences, FiniteSets, TLC

VARIABLES
    master_public_key,  \* Wallet.master_public_key: "None" or "mpk"
    addresses,          \* Wallet.addresses: receiving addresses, in order
    change_addresses,   \* Wallet.change_addresses
    history,            \* Wallet.history: address -> list of history entries
    status,             \* Wallet.status: address -> blk_hash or "None"
    tx_history,         \* Wallet.tx_history: tx_hash -> line (not saved)
    addressbook,        \* Wallet.addressbook (saved as 'contacts')
    labels,             \* Wallet.labels: transaction -> label
    blocks,             \* Wallet.blocks
    use_encryption,     \* Wallet.use_encryption
    seed,               \* Wallet.seed: the seed as stored
    seed_version,       \* Wallet.seed_version
    self_fee,           \* Wallet.fee (self.fee)
    file,               \* the wallet file at Wallet.path
    last,               \* the last operation called and what it returned
    verified_tx,        \* wallet.verified_tx: tx_hash -> (height, timestamp, pos)
    unverified_tx,      \* wallet.unverified_tx: tx_hash -> height
    merkle_roots,       \* SPV.merkle_roots
    queue,              \* SPV.queue: responses not yet handled
    requested_merkle,   \* run()'s local list requested_merkle
    headers,            \* the local header chain: height -> header
    unanswered,         \* the requests the network has sent and not yet answered
    spv_last,           \* the last verifier operation and its outcome
    tcp,                \* wallet.interface, a TCPInterface, and its threads
    dev,                \* the DeviceMgr and the hardware plugged in
    daemon,             \* the daemon's NetworkServer, its threads and its clock
    session             \* the server's sessions and store, and the polling client

wvars == <<master_public_key, addresses, change_addresses, history, status,
           tx_history, addressbook, labels, blocks, use_encryption, seed,
           seed_version, self_fee, file, last>>
svars == <<verified_tx, unverified_tx, merkle_roots, queue, requested_merkle,
           headers, unanswered, spv_last>>
xvars == <<tcp, dev, daemon, session>>
vars == <<wvars, svars, xvars>>

----------------------------------------------------------------------------
(* Program constants and bounds *)

\* self.gap_limit = 5
GapLimit == 5
\* self.fee = 50000
WalletFee == 50000

\* Bound on the length of the receiving list.
MaxRecv == 6
\* Bound on the length of the change list.
MaxChange == 2
\* Bound on the number of entries of one poll's changed_addresses.
MaxChanged == 1
\* Bound on the number of labelled transactions.
MaxLabels == 1

----------------------------------------------------------------------------
(* Generic helpers *)

\* dict[k] = v
Put(f, k, v) == [x \in (DOMAIN f) \cup {k} |-> IF x = k THEN v ELSE f[x]]

EmptyDict == [x \in {} |-> 0]

\* Python's s[-n:]
LastN(s, n) == IF Len(s) <= n THEN s ELSE SubSeq(s, Len(s) - n + 1, Len(s))

Range(s) == {s[i] : i \in 1..Len(s)}

IsPrefix(s, t) == Len(s) <= Len(t) /\ SubSeq(t, 1, Len(s)) = s

RECURSIVE SumSeq(_)
SumSeq(s) == IF s = <<>> THEN 0 ELSE Head(s) + SumSeq(Tail(s))

RECURSIVE SortedKeys(_)
SortedKeys(S) ==
    IF S = {} THEN <<>>
    ELSE LET m == CHOOSE x \in S : \A y \in S : x <= y
         IN <<m>> \o SortedKeys(S \ {m})

----------------------------------------------------------------------------
(* Addresses *)

\* Publickey(type,n) = Master_public_key + H(n|S|type)*point, then the address
\* of that key: one address per (n, for_change), no two alike.
Derive(n, for_change) == 10 + 2 * n + (IF for_change THEN 1 ELSE 0)

\* Addresses that are not the wallet's: a well-formed one and a malformed one.
Recipients == {1}
Malformed == {0}

is_valid(addr) == addr \notin Malformed

----------------------------------------------------------------------------
(* What the server may answer to ('h', address): a list of txpoints, the   *)
(* confirmed ones sorted by nTime, then the memory pool.                    *)

E1 == [tx_hash |-> 1, height |-> 1, value |-> 150000, nTime |-> 1,
       blk_hash |-> "b1", raw_scriptPubKey |-> TRUE,
       outputs |-> <<Derive(0, FALSE)>>]
E2 == [tx_hash |-> 2, height |-> 0, value |-> 100000, nTime |-> 0,
       blk_hash |-> "mempool", raw_scriptPubKey |-> TRUE,
       outputs |-> <<Derive(0, TRUE)>>]
E3 == [tx_hash |-> 3, height |-> 2, value |-> -150000, nTime |-> 2,
       blk_hash |-> "b2", raw_scriptPubKey |-> FALSE,
       outputs |-> <<1, Derive(0, TRUE)>>]

E4 == [tx_hash |-> 4, height |-> 0, value |-> -50000, nTime |-> 0,
       blk_hash |-> "mempool", raw_scriptPubKey |-> FALSE,
       outputs |-> <<1>>]

HistChoices == {<<>>, <<E1>>, <<E3, E2>>, <<E3, E2, E4>>}

\* What the server may answer for one address: it knows of transactions on
\* the first two receiving addresses and on the first change address.
ServerHistories(a) ==
    IF a = Derive(0, FALSE) THEN HistChoices
    ELSE IF a \in {Derive(1, FALSE), Derive(0, TRUE)} THEN {<<>>, <<E1>>}
    ELSE {<<>>}

\* the address create_new_address2 would derive next
next_address(w, for_change) ==
    Derive(IF for_change THEN Len(w.change_addresses) ELSE Len(w.addresses),
           for_change)

\* Store.get_status / status[address] = h[-1]['blk_hash'] if h else None
StatusOf(h) == IF h = <<>> THEN "None" ELSE h[Len(h)].blk_hash

----------------------------------------------------------------------------
(* Strings that may be encrypted.  A string is a record: body is the text  *)
(* it was made from, keys the AES keys it is encrypted under, outermost    *)
(* first.  Decrypting with a key that is not the outermost one leaves      *)
(* bytes that are not hexadecimal.                                         *)

\* from version import SEED_VERSION
SeedVersion == "SEED_VERSION"

\* the body of the string ''
EmptyString == 0
\* the body of bytes that came out of a decryption with the wrong key
Garbage == -1
\* "%032x"%ecdsa.util.randrange( pow(2,128) ): the seeds that can be drawn
Seeds == {1}
\* what the user can type at a password prompt, besides just return
Passwords == {"a", "b"}
\* Bound on the number of keys a stored seed is encrypted under.
MaxLayers == 2

Text(n) == [body |-> n, keys |-> <<>>]

\* secret = Hash(password)
Secret(password) == <<"Hash", password>>

\* EncodeAES = lambda secret, s: base64.b64encode(aes.encryptData(secret,s))
EncodeAES(secret, s) == [body |-> s.body, keys |-> <<secret>> \o s.keys]

\* DecodeAES = lambda secret, e: aes.decryptData(secret, base64.b64decode(e))
DecodeAES(secret, e) ==
    IF e.keys # <<>> /\ Head(e.keys) = secret
    THEN [body |-> e.body, keys |-> Tail(e.keys)]
    ELSE Text(Garbage)

\* whether d.decode('hex') succeeds
IsHex(d) == d.keys = <<>> /\ d.body # Garbage

\* pw_encode, had it returned the string as it is under every password
pw_encode_plain(s, password) == s

\* Wallet.pw_encode; the password is "" when it is '' or None
pw_encode(s, password) ==
    IF password # "" THEN EncodeAES(Secret(password), s) ELSE s

\* Wallet.pw_decode: d is what is returned, raised whether InvalidPassword
\* is raised instead
pw_decode(s, password) ==
    IF password # ""
    THEN LET d == DecodeAES(Secret(password), s)
         IN [d |-> d, raised |-> ~IsHex(d)]
    ELSE [d |-> s, raised |-> FALSE]

\* Wallet.fee is a number of satoshis; whole and frac (thousandths) are its
\* integer and fractional parts
Whole(n) == [whole |-> n, frac |-> 0]

\* float(fee) of what is typed at the fee prompt of the create command
TypedFees == {[whole |-> 0, frac |-> 1], [whole |-> 60000, frac |-> 0]}

\* int( d.get('fee') )
int(f) == [whole |-> f.whole, frac |-> 0]

----------------------------------------------------------------------------
(* The wallet as a record, so that methods are operators on it *)

W == [master_public_key |-> master_public_key, addresses |-> addresses,
      change_addresses |-> change_addresses, history |-> history,
      status |-> status, tx_history |-> tx_history,
      addressbook |-> addressbook, labels |-> labels, blocks |-> blocks,
      use_encryption |-> use_encryption, seed |-> seed,
      seed_version |-> seed_version, fee |-> self_fee, file |-> file]

SetWallet(w) ==
    /\ master_public_key' = w.master_public_key
    /\ addresses' = w.addresses
    /\ change_addresses' = w.change_addresses
    /\ history' = w.history
    /\ status' = w.status
    /\ tx_history' = w.tx_history
    /\ addressbook' = w.addressbook
    /\ labels' = w.labels
    /\ blocks' = w.blocks
    /\ use_encryption' = w.use_encryption
    /\ seed' = w.seed
    /\ seed_version' = w.seed_version
    /\ self_fee' = w.fee
    /\ file' = w.file

\* Wallet.__init__
NewWallet(f) ==
    [master_public_key |-> "None", addresses |-> <<>>,
     change_addresses |-> <<>>, history |-> EmptyDict, status |-> EmptyDict,
     tx_history |-> EmptyDict, addressbook |-> <<>>, labels |-> EmptyDict,
     blocks |-> 0, use_encryption |-> FALSE, seed |-> Text(EmptyString),
     seed_version |-> SeedVersion, fee |-> Whole(WalletFee), file |-> f]

NoFile == [exists |-> FALSE]

all_addresses(w) == w.addresses \o w.change_addresses

is_mine(w, address) == address \in Range(all_addresses(w))

is_change(w, address) == address \in Range(w.change_addresses)

\* bool(self.history.get(a))
Used(w, a) == a \in DOMAIN w.history /\ w.history[a] # <<>>

\* self.history.get(a) == []
EmptyList(w, a) == a \in DOMAIN w.history /\ w.history[a] = <<>>

status_get(w, a) == IF a \in DOMAIN w.status THEN w.status[a] ELSE "None"

\* Wallet.save: the record written to the file.  content is "record" for
\* the repr of a dictionary and "empty" for a file of no bytes; missing is
\* the set of keys the dictionary lacks (none when save() wrote it)
save(w) ==
    [w EXCEPT !.file =
        [exists |-> TRUE, content |-> "record", missing |-> {},
         seed_version |-> w.seed_version,
         use_encryption |-> w.use_encryption, fee |-> w.fee,
         seed |-> w.seed, master_public_key |-> w.master_public_key,
         blocks |-> w.blocks, addresses |-> w.addresses,
         change_addresses |-> w.change_addresses, status |-> w.status,
         history |-> w.history, labels |-> w.labels,
         contacts |-> w.addressbook]]

\* list.index(x): the first position of x, counted from 0
index(list, x) ==
    (CHOOSE i \in 1..Len(list) :
        list[i] = x /\ \A j \in 1..(i - 1) : list[j] # x) - 1

\* Wallet.get_private_key2, up to the (n, for_change) it hands get_sequence
get_private_key2(w, address) ==
    IF address \in Range(w.addresses)
    THEN [n |-> index(w.addresses, address), for_change |-> FALSE,
          raised |-> FALSE]
    ELSE IF address \in Range(w.change_addresses)
    THEN [n |-> index(w.change_addresses, address), for_change |-> TRUE,
          raised |-> FALSE]
    ELSE [n |-> 0, for_change |-> FALSE, raised |-> TRUE]

\* create_new_address2, had it counted the new address before deriving it
create_new_address2_skip(w, for_change, h) ==
    LET n == IF for_change THEN Len(w.change_addresses) ELSE Len(w.addresses)
        address == Derive(n + 1, for_change)
    IN save([w EXCEPT
              !.change_addresses = IF for_change THEN Append(@, address) ELSE @,
              !.addresses = IF for_change THEN @ ELSE Append(@, address),
              !.history = Put(@, address, h),
              !.status = Put(@, address, StatusOf(h))])

\* Wallet.create_new_address2; h is the server's answer to retrieve_history
create_new_address2(w, for_change, h) ==
    LET n == IF for_change THEN Len(w.change_addresses) ELSE Len(w.addresses)
        address == Derive(n, for_change)
    IN save([w EXCEPT
              !.change_addresses = IF for_change THEN Append(@, address) ELSE @,
              !.addresses = IF for_change THEN @ ELSE Append(@, address),
              !.history = Put(@, address, h),
              !.status = Put(@, address, StatusOf(h))])

----------------------------------------------------------------------------
(* The transaction table *)

\* a line of tx_history: the entry copied, with its default_label
Line(tx, value, nTime, label) ==
    [tx_hash |-> tx.tx_hash, height |-> tx.height, value |-> value,
     nTime |-> nTime, blk_hash |-> tx.blk_hash,
     raw_scriptPubKey |-> tx.raw_scriptPubKey, outputs |-> tx.outputs,
     default_label |-> label]

\* the entries of the histories of addrs, address by address
RECURSIVE EntriesOf(_, _)
EntriesOf(w, addrs) ==
    IF addrs = <<>> THEN <<>>
    ELSE (IF Head(addrs) \in DOMAIN w.history
          THEN w.history[Head(addrs)] ELSE <<>>)
         \o EntriesOf(w, Tail(addrs))

\* the loop of update_tx_history over the entries; acc is self.tx_history.
\* 1e12, the nTime of an unconfirmed line, is written 2000000000 here.
RECURSIVE fold_tx_history(_, _)
fold_tx_history(entries, acc) ==
    IF entries = <<>> THEN acc
    ELSE LET tx == Head(entries)
             v == IF tx.tx_hash \in DOMAIN acc
                  THEN acc[tx.tx_hash].value + tx.value ELSE tx.value
             base == IF tx.tx_hash \in DOMAIN acc THEN acc[tx.tx_hash] ELSE tx
             t == IF base.height = 0 THEN 2000000000 ELSE base.nTime
         IN fold_tx_history(Tail(entries),
                            Put(acc, tx.tx_hash, Line(base, v, t, <<>>)))

\* the default label of one line: the last output that qualifies names it
RECURSIVE default_label(_, _, _, _)
default_label(w, tx, outs, acc) ==
    IF outs = <<>> THEN acc
    ELSE LET o == Head(outs)
             hit == IF tx.value < 0 THEN ~is_change(w, o)
                    ELSE is_mine(w, o) /\ ~is_change(w, o)
             lab == IF tx.value < 0 THEN <<"to", o>> ELSE <<"at", o>>
         IN default_label(w, tx, Tail(outs), IF hit THEN lab ELSE acc)

\* Wallet.update_tx_labels (no operation of the model labels an address)
update_tx_labels(w) ==
    [w EXCEPT !.tx_history =
        [h \in DOMAIN w.tx_history |->
            [w.tx_history[h] EXCEPT
                !.default_label =
                    default_label(w, w.tx_history[h],
                                  w.tx_history[h].outputs, <<>>)]]]

\* Wallet.update_tx_history
update_tx_history(w) ==
    update_tx_labels(
        [w EXCEPT !.tx_history =
            fold_tx_history(EntriesOf(w, all_addresses(w)), EmptyDict)])

\* the outputs of the spending transactions, in the order synchronize meets them
RECURSIVE SpentOutputs(_, _)
SpentOutputs(w, keys) ==
    IF keys = <<>> THEN <<>>
    ELSE (IF w.tx_history[Head(keys)].value < 0
          THEN w.tx_history[Head(keys)].outputs ELSE <<>>)
         \o SpentOutputs(w, Tail(keys))

\* if not self.is_mine(i) and i not in self.addressbook: append
RECURSIVE add_contacts(_, _, _)
add_contacts(w, book, outs) ==
    IF outs = <<>> THEN book
    ELSE add_contacts(w,
            IF ~is_mine(w, Head(outs)) /\ Head(outs) \notin Range(book)
            THEN Append(book, Head(outs)) ELSE book,
            Tail(outs))

----------------------------------------------------------------------------
(* Wallet.synchronize: the set of its outcomes, one per way the server may  *)
(* answer the history requests.  An outcome that needs more addresses than  *)
(* the bounds allow is left out.                                            *)

\* the first loop: change addresses
RECURSIVE sync_change(_)
sync_change(w) ==
    IF w.change_addresses = <<>>
       \/ Used(w, w.change_addresses[Len(w.change_addresses)])
    THEN IF Len(w.change_addresses) >= MaxChange THEN {}
         ELSE UNION {sync_change(create_new_address2(w, TRUE, h)) :
                        h \in ServerHistories(next_address(w, TRUE))}
    ELSE {w}

\* map(lambda a: self.history.get(a), self.addresses[-n:]) == n*[[]]
LastAllEmpty(w, n) ==
    /\ Len(w.addresses) >= n
    /\ \A a \in Range(LastN(w.addresses, n)) : EmptyList(w, a)

\* the second loop, had it looked at one address fewer than gap_limit
RECURSIVE sync_receiving_short(_)
sync_receiving_short(w) ==
    IF Len(w.addresses) < GapLimit \/ ~LastAllEmpty(w, GapLimit - 1)
    THEN IF Len(w.addresses) >= MaxRecv THEN {}
         ELSE UNION {sync_receiving_short(create_new_address2(w, FALSE, h)) :
                        h \in ServerHistories(next_address(w, FALSE))}
    ELSE {w}

\* the second loop: receiving addresses
RECURSIVE sync_receiving(_)
sync_receiving(w) ==
    IF Len(w.addresses) < GapLimit \/ ~LastAllEmpty(w, GapLimit)
    THEN IF Len(w.addresses) >= MaxRecv THEN {}
         ELSE UNION {sync_receiving(create_new_address2(w, FALSE, h)) :
                        h \in ServerHistories(next_address(w, FALSE))}
    ELSE {w}

\* is_found, then "history and addressbook" and "redo labels"
sync_finish(w) ==
    LET is_found == Len(w.change_addresses) > 1 \/ Len(w.addresses) > GapLimit
        w1 == update_tx_history(w)
        w2 == [w1 EXCEPT !.addressbook =
                 add_contacts(w1, @,
                    SpentOutputs(w1, SortedKeys(DOMAIN w1.tx_history)))]
    IN IF ~is_found THEN [w |-> w, ret |-> FALSE]
       ELSE [w |-> update_tx_labels(w2), ret |-> TRUE]

synchronize(w) ==
    {sync_finish(w2) : w2 \in UNION {sync_receiving(w1) : w1 \in sync_change(w)}}

----------------------------------------------------------------------------
(* Wallet.get_new_address; h is the server's answer for the new address *)

\* get_new_address, had it never refused
get_new_address_always(w, h) ==
    LET w1 == create_new_address2(w, FALSE, h)
        new_address == w1.addresses[Len(w1.addresses)]
    IN [w |-> [w1 EXCEPT !.history = Put(@, new_address, <<>>)],
        ok |-> TRUE, addr |-> new_address]

\* get_new_address, had it compared n with gap_limit - 1
get_new_address_early(w, h) ==
    LET n == Cardinality({i \in 1..Len(LastN(w.addresses, GapLimit)) :
                            ~Used(w, LastN(w.addresses, GapLimit)[i])})
        w1 == create_new_address2(w, FALSE, h)
        new_address == w1.addresses[Len(w1.addresses)]
    IN IF n < GapLimit - 1
       THEN [w |-> [w1 EXCEPT !.history = Put(@, new_address, <<>>)],
             ok |-> TRUE, addr |-> new_address]
       ELSE [w |-> w, ok |-> FALSE, addr |-> 0]

get_new_address(w, h) ==
    LET n == Cardinality({i \in 1..Len(LastN(w.addresses, GapLimit)) :
                            ~Used(w, LastN(w.addresses, GapLimit)[i])})
        w1 == create_new_address2(w, FALSE, h)
        new_address == w1.addresses[Len(w1.addresses)]
    IN IF n < GapLimit
       THEN [w |-> [w1 EXCEPT !.history = Put(@, new_address, <<>>)],
             ok |-> TRUE, addr |-> new_address]
       ELSE [w |-> w, ok |-> FALSE, addr |-> 0]

----------------------------------------------------------------------------
(* Balance *)

\* the sums, had every entry after an unconfirmed one been taken for
\* unconfirmed
get_addr_balance_latched(w, addr) ==
    LET h == IF addr \in DOMAIN w.history THEN w.history[addr] ELSE <<>>
        seen(i) == \E j \in 1..i : h[j].height = 0
    IN <<SumSeq([i \in 1..Len(h) |-> IF seen(i) THEN 0 ELSE h[i].value]),
         SumSeq([i \in 1..Len(h) |-> IF seen(i) THEN h[i].value ELSE 0])>>

\* Wallet.get_addr_balance: (confirmed, unconfirmed)
get_addr_balance(w, addr) ==
    LET h == IF addr \in DOMAIN w.history THEN w.history[addr] ELSE <<>>
    IN <<SumSeq([i \in 1..Len(h) |->
                    IF h[i].height # 0 THEN h[i].value ELSE 0]),
         SumSeq([i \in 1..Len(h) |->
                    IF h[i].height # 0 THEN 0 ELSE h[i].value])>>

\* the addresses Wallet.get_balance sums over
balance_addresses(w) == w.addresses

\* Wallet.get_balance
get_balance(w) ==
    LET as == balance_addresses(w)
    IN <<SumSeq([i \in 1..Len(as) |-> get_addr_balance(w, as[i])[1]]),
         SumSeq([i \in 1..Len(as) |-> get_addr_balance(w, as[i])[2]])>>

----------------------------------------------------------------------------
(* Wallet.mktx *)

\* the coins of choose_tx_inputs: the entries that carry a raw_scriptPubKey
RECURSIVE CoinsOf(_, _)
CoinsOf(w, addrs) ==
    IF addrs = <<>> THEN <<>>
    ELSE LET a == Head(addrs)
             h == IF a \in DOMAIN w.history THEN w.history[a] ELSE <<>>
         IN SelectSeq([i \in 1..Len(h) |-> [addr |-> a, item |-> h[i]]],
                      LAMBDA c : c.item.raw_scriptPubKey)
            \o CoinsOf(w, Tail(addrs))

\* sorted( coins, key = lambda x: x[1]['nTime'] ): a stable sort
RECURSIVE SortCoins(_)
SortCoins(cs) ==
    IF cs = <<>> THEN <<>>
    ELSE LET s == SortCoins(SubSeq(cs, 1, Len(cs) - 1))
             c == cs[Len(cs)]
             k == Cardinality({i \in 1..Len(s) :
                                 s[i].item.nTime <= c.item.nTime})
         IN SubSeq(s, 1, k) \o <<c>> \o SubSeq(s, k + 1, Len(s))

\* the test, had it let any total pass
EnoughFunds_any(total, amount, fee) == TRUE

\* whether the inputs collected so far are enough
EnoughFunds(total, amount, fee) == total >= amount + fee

\* the for/else loop of choose_tx_inputs; fx is the fixed_fee argument and
\* wfee is self.fee, a whole number when mktx runs
RECURSIVE select_inputs(_, _, _, _, _, _, _)
select_inputs(coins, inputs, total, fee, amount, fx, wfee) ==
    IF coins = <<>> THEN [inputs |-> <<>>, total |-> total, fee |-> fee]
    ELSE LET c == Head(coins)
             v == c.item.value
             inputs1 == Append(inputs, [addr |-> c.addr, value |-> v,
                                        tx_hash |-> c.item.tx_hash])
             fee1 == IF fx.given THEN fx.fee ELSE wfee * Len(inputs1)
         IN IF EnoughFunds(total + v, amount, fee1)
            THEN [inputs |-> inputs1, total |-> total + v, fee |-> fee1]
            ELSE select_inputs(Tail(coins), inputs1, total + v, fee1,
                               amount, fx, wfee)

\* Wallet.choose_tx_inputs
choose_tx_inputs(w, amount, fx) ==
    select_inputs(SortCoins(CoinsOf(w, all_addresses(w))), <<>>, 0,
                  IF fx.given THEN fx.fee ELSE w.fee.whole, amount, fx,
                  w.fee.whole)

\* the change, had the fee been left out of it
change_amount_nofee(total, amount, fee) == total - amount

\* the amount of the change output
change_amount(total, amount, fee) == total - (amount + fee)

\* Wallet.choose_tx_outputs; h is the server's answer should a change
\* address be created
choose_tx_outputs(w, to_addr, amount, fee, total, h) ==
    LET change == change_amount(total, amount, fee)
        unused == {i \in 1..Len(w.change_addresses) :
                     ~Used(w, w.change_addresses[i])}
        first == CHOOSE i \in unused : \A j \in unused : i <= j
        w1 == create_new_address2(w, TRUE, h)
    IN IF change = 0
       THEN [w |-> w, outputs |-> <<[addr |-> to_addr, amount |-> amount]>>]
       ELSE IF unused # {}
       THEN [w |-> w,
             outputs |-> <<[addr |-> to_addr, amount |-> amount],
                           [addr |-> w.change_addresses[first],
                            amount |-> change]>>]
       ELSE [w |-> w1,
             outputs |-> <<[addr |-> to_addr, amount |-> amount],
                           [addr |-> w1.change_addresses[Len(w1.change_addresses)],
                            amount |-> change]>>]

\* int_to_hex(i, length): hex(i)[2:] of a negative i starts with "x", and
\* decode('hex') then raises TypeError
int_to_hex_ok(i) == i >= 0

\* raw_tx( inputs, outputs, for_sig ): whether every amount can be written
raw_tx_ok(outputs) ==
    \A i \in 1..Len(outputs) : int_to_hex_ok(outputs[i].amount)

\* Wallet.mktx.  pwok: whether pw_decode accepts the password in sign_inputs.
mktx(w, to_address, amount, label, pwok, fx, h) ==
    LET sel == choose_tx_inputs(w, amount, fx)
        out == choose_tx_outputs(w, to_address, amount, sel.fee, sel.total, h)
        tx == [inputs |-> sel.inputs, outputs |-> out.outputs]
        w1 == out.w
        w2 == [w1 EXCEPT
                 !.addressbook = IF to_address \in Range(@) THEN @
                                 ELSE Append(@, to_address),
                 !.labels = IF label # "" THEN Put(@, tx, label) ELSE @]
    IN IF ~is_valid(to_address)
       THEN [w |-> w, ok |-> FALSE, msg |-> "Invalid address",
             inputs |-> <<>>, outputs |-> <<>>, fee |-> 0]
       ELSE IF sel.inputs = <<>>
       THEN [w |-> w, ok |-> FALSE, msg |-> "Not enough funds",
             inputs |-> <<>>, outputs |-> <<>>, fee |-> sel.fee]
       ELSE IF ~pwok
       THEN [w |-> w1, ok |-> FALSE, msg |-> "Wrong password",
             inputs |-> <<>>, outputs |-> <<>>, fee |-> sel.fee]
       ELSE IF ~raw_tx_ok(out.outputs)
       THEN [w |-> w1, ok |-> FALSE, msg |-> "TypeError",
             inputs |-> <<>>, outputs |-> <<>>, fee |-> sel.fee]
       ELSE [w |-> save(w2), ok |-> TRUE, msg |-> "tx",
             inputs |-> sel.inputs, outputs |-> out.outputs, fee |-> sel.fee]

----------------------------------------------------------------------------
(* Wallet.read *)

\* The keys a wallet file may lack.
Missable == {"seed_version", "master_public_key", "fee"}

\* how read() ends: "ok" (returns True), "no file" (returns False), "parse"
\* (raises "could not parse wallet") or "version" (raises "Seed version
\* mismatch")
read_end(w) ==
    IF ~w.file.exists THEN "no file"
    ELSE IF w.file.content = "empty" THEN "parse"
    ELSE IF "fee" \in w.file.missing THEN "parse"
    ELSE IF "seed_version" \in w.file.missing
            \/ w.file.seed_version # SeedVersion THEN "version"
    ELSE "ok"

\* the assignments made before int( d.get('fee') ) raises
read_until_fee(w) ==
    [w EXCEPT !.seed_version = IF "seed_version" \in w.file.missing
                               THEN "None" ELSE w.file.seed_version,
              !.master_public_key =
                  IF "master_public_key" \in w.file.missing
                  THEN "None" ELSE w.file.master_public_key,
              !.use_encryption = w.file.use_encryption]

\* the fields of the file, d.get(key) being None for a missing key, then
\* update_tx_history
read(w) ==
    update_tx_history(
        [read_until_fee(w) EXCEPT
                  !.fee = int(w.file.fee),
                  !.seed = w.file.seed,
                  !.blocks = w.file.blocks,
                  !.addresses = w.file.addresses,
                  !.change_addresses = w.file.change_addresses,
                  !.status = w.file.status,
                  !.history = w.file.history,
                  !.labels = w.file.labels,
                  !.addressbook = w.file.contacts])

----------------------------------------------------------------------------
(* Wallet.update: the loop over changed_addresses.  changed is the set of  *)
(* reported addresses, srv[a] the history the server holds for a.          *)

\* the test, had it asked for the history at every report
needs_history_always(w, addr, blk_hash) == TRUE

\* if self.status.get(addr) != blk_hash
needs_history(w, addr, blk_hash) == status_get(w, addr) # blk_hash

RECURSIVE apply_changes(_, _, _)
apply_changes(w, addrs, srv) ==
    IF addrs = <<>> THEN w
    ELSE LET addr == Head(addrs)
             blk_hash == StatusOf(srv[addr])
         IN apply_changes(
              IF needs_history(w, addr, blk_hash)
              THEN [w EXCEPT !.history = Put(@, addr, srv[addr]),
                             !.status = Put(@, addr, blk_hash)]
              ELSE w,
              Tail(addrs), srv)

\* what the server may answer for each of the addresses of changed
ServerAnswers(changed) ==
    {srv \in [changed -> HistChoices] :
        \A a \in changed : srv[a] \in ServerHistories(a)}

\* what poll may return as changed_addresses: at most MaxChanged addresses
PollSets(w) ==
    {S \in SUBSET Range(all_addresses(w)) : Cardinality(S) <= MaxChanged}

\* the addresses for which the loop of update calls retrieve_history (an
\* address is reported once, so the test is made on the status before)
retrieved(w, changed, srv) ==
    {a \in changed : needs_history(w, a, StatusOf(srv[a]))}

\* Wallet.update, after a poll that found the session: the set of outcomes
update(w, poll_blocks, changed, srv) ==
    LET w1 == apply_changes([w EXCEPT !.blocks = poll_blocks],
                            SortedKeys(changed), srv)
    IN IF changed = {}
       THEN {[w |-> w1, ok |-> FALSE, retrieved |-> {}]}
       ELSE {[w |-> save(r.w), ok |-> TRUE,
              retrieved |-> retrieved(w, changed, srv)] :
                r \in synchronize(w1)}

----------------------------------------------------------------------------
(* The SPV verifier (lib/verifier.py).  Hashes are numbers below HashMod;   *)
(* a hash in hexadecimal and the same hash as bytes are different values.   *)

\* Size of the model's hash space.
HashMod == 7
\* Bound on the height of the local header chain.
MaxHeight == 1
\* Bound on the length of a Merkle branch.
MaxBranch == 1
\* Hash(a + b): the double SHA-256 of a concatenation
Hash(a, b) == (3 * a + 5 * b + 1) % HashMod

\* hash_decode / hash_encode: hexadecimal to reversed bytes and back
hash_decode(x) == HashMod - 1 - x
hash_encode(x) == HashMod - 1 - x

\* bit i of pos, had every bit been read as 0
Bit_zero(pos, i) == 0

\* bit i of pos: (pos >> i) & 1
Bit(pos, i) == (pos \div (2 ^ i)) % 2

\* the loop of hash_merkle_root from level i on
RECURSIVE fold_merkle(_, _, _, _)
fold_merkle(merkle_s, h, pos, i) ==
    IF i >= Len(merkle_s) THEN h
    ELSE fold_merkle(merkle_s,
                     IF Bit(pos, i) = 1
                     THEN Hash(hash_decode(merkle_s[i + 1]), h)
                     ELSE Hash(h, hash_decode(merkle_s[i + 1])),
                     pos, i + 1)

\* SPV.hash_merkle_root
hash_merkle_root(merkle_s, target_hash, pos) ==
    hash_encode(fold_merkle(merkle_s, hash_decode(target_hash), pos, 0))

TxHashes == {1, 2}
Siblings == {3}
Heights == 1..MaxHeight
\* the heights a server may name, one of them beyond the local chain
ResponseHeights == 1..(MaxHeight + 1)
Positions == 0..(2 ^ MaxBranch - 1)

Branches == UNION {[1..n -> Siblings] : n \in 0..MaxBranch}

\* the results a server may send for blockchain.transaction.get_merkle
MerkleResults ==
    [block_height : ResponseHeights, pos : Positions, merkle : Branches]

\* the result field of an error response
NoResult == [block_height |-> 0, pos |-> 0, merkle |-> <<>>]

\* the headers the chain may hold at a height
Headers == {[merkle_root |-> 3, timestamp |-> 10],
            [merkle_root |-> 4, timestamp |-> 11]}

\* the verifier and the wallet and network it talks to, as a record
S == [verified_tx |-> verified_tx, unverified_tx |-> unverified_tx,
      merkle_roots |-> merkle_roots, queue |-> queue,
      requested_merkle |-> requested_merkle, headers |-> headers]

SetSPV(s) ==
    /\ verified_tx' = s.verified_tx
    /\ unverified_tx' = s.unverified_tx
    /\ merkle_roots' = s.merkle_roots
    /\ queue' = s.queue
    /\ requested_merkle' = s.requested_merkle
    /\ headers' = s.headers

\* dict.pop(k, None)
Pop(f, k) == [x \in (DOMAIN f) \ {k} |-> f[x]]

\* network.get_local_height
get_local_height(s) ==
    IF DOMAIN s.headers = {} THEN 0
    ELSE CHOOSE h \in DOMAIN s.headers : \A g \in DOMAIN s.headers : g <= h

\* wallet.add_verified_tx
add_verified_tx(s, tx_hash, info) ==
    [s EXCEPT !.unverified_tx = Pop(@, tx_hash),
              !.verified_tx = Put(@, tx_hash, info)]

\* wallet.unverify_txs
RECURSIVE unverify_txs(_, _)
unverify_txs(s, txs) ==
    IF txs = <<>> THEN s
    ELSE unverify_txs(
            [s EXCEPT !.unverified_tx =
                          Put(@, Head(txs), s.verified_tx[Head(txs)].height),
                      !.verified_tx = Pop(@, Head(txs))],
            Tail(txs))

\* the comparison of verify_merkle, had it been left out
root_matches_any(header, merkle_root) == TRUE

\* whether verify_merkle accepts the branch against the header
root_matches(header, merkle_root) == header.merkle_root = merkle_root

\* SPV.verify_merkle
verify_merkle(s, tx_hash, result) ==
    LET tx_height == result.block_height
        pos == result.pos
        merkle_root == hash_merkle_root(result.merkle, tx_hash, pos)
    IN IF tx_height \notin DOMAIN s.headers THEN s
       ELSE IF ~root_matches(s.headers[tx_height], merkle_root) THEN s
       ELSE add_verified_tx(
               [s EXCEPT !.merkle_roots = Put(@, tx_hash, merkle_root)],
               tx_hash,
               [height |-> tx_height,
                timestamp |-> s.headers[tx_height].timestamp, pos |-> pos])

\* the transactions of a pass that did not look at the local height
to_request_any_height(s) ==
    {t \in DOMAIN s.unverified_tx :
        /\ t \notin DOMAIN s.verified_tx
        /\ t \notin DOMAIN s.merkle_roots
        /\ t \notin Range(s.requested_merkle)}

\* the transactions of a pass that kept no list of what it had asked for
to_request_again(s) ==
    {t \in DOMAIN s.unverified_tx :
        /\ t \notin DOMAIN s.verified_tx
        /\ s.unverified_tx[t] <= get_local_height(s)
        /\ t \notin DOMAIN s.merkle_roots}

\* the transactions run() asks a branch for in one pass of its for loop
to_request(s) ==
    {t \in DOMAIN s.unverified_tx :
        /\ t \notin DOMAIN s.verified_tx
        /\ s.unverified_tx[t] <= get_local_height(s)
        /\ t \notin DOMAIN s.merkle_roots
        /\ t \notin Range(s.requested_merkle)}

\* SPV.undo_verifications: "for tx_hash, item in verified_tx" walks the keys
\* of the dict, and a key, a transaction hash, does not unpack into two
\* names: with any verified transaction the first pass raises ValueError,
\* before merkle_roots or the wallet is touched.
undo_verifications(s, height) ==
    IF DOMAIN s.verified_tx = {}
    THEN [s |-> unverify_txs(s, <<>>), raised |-> FALSE]
    ELSE [s |-> s, raised |-> TRUE]

----------------------------------------------------------------------------
(* The persistent TCP interface (client/interface.py): one TCPInterface,    *)
(* the wallet's interface, with the thread of loop_interfaces_thread, the   *)
(* listen thread of the session and a thread that broadcasts transactions.  *)

\* Bound on the transactions broadcast in one session.
MaxTx == 1
\* Bound on the messages the server has sent and the client has not read.
MaxInbox == 1

\* the id of a message that has none: c.get('id') is None
NoId == -1

\* a thread that is not inside send()
Idle == [pc |-> "idle", id |-> 0, tmp |-> 0]

\* TCPInterface.__init__ (and Interface.__init__): open is the state of the
\* connection behind self.s, sent the requests written to it, inbox what the
\* server wrote and recv has not returned yet
NewTCPInterface ==
    [message_id |-> 0, messages |-> EmptyDict, tx_event |-> FALSE,
     tx_result |-> "None", is_connected |-> FALSE,
     disconnected_event |-> FALSE, open |-> FALSE, sent |-> {},
     inbox |-> <<>>]

InitTCP ==
    tcp = [i |-> NewTCPInterface,
           loop |-> [pc |-> "start", k |-> 0, subs |-> <<>>, s |-> Idle],
           gui |-> [pc |-> "idle", stale |-> FALSE, s |-> Idle],
           last |-> [op |-> "init"]]

\* what start_session and then get_servers send, in order
Script(subs) ==
    <<[method |-> "client.version", params |-> <<"version">>],
      [method |-> "server.banner", params |-> <<>>],
      [method |-> "numblocks.subscribe", params |-> <<>>]>>
    \o [n \in 1..Len(subs) |->
           [method |-> "address.subscribe", params |-> <<subs[n]>>]]
    \o <<[method |-> "server.peers", params |-> <<>>]>>

\* send() takes no lock, so another thread may run between any two of its
\* steps.  One step of send(method, params) by a thread whose position in
\* send() is t, on the interface i: the outcomes [i, t, raised].
\*   dump:  json.dumps( { 'id':self.message_id, ... } )
\*   store: self.messages[self.message_id] = (method, params)
\*   wire:  self.s.send( request + '\n' ), which raises socket.error once
\*          the connection is known to be gone and may still be accepted
\*          right after the server closed
\*   load, incr: self.message_id += 1, a read and then a write
send_step(i, t, method, params) ==
    CASE t.pc = "dump" ->
           {[i |-> i, t |-> [t EXCEPT !.pc = "store", !.id = i.message_id],
             raised |-> FALSE]}
      [] t.pc = "store" ->
           {[i |-> [i EXCEPT !.messages =
                        Put(@, i.message_id,
                            [method |-> method, params |-> params])],
             t |-> [t EXCEPT !.pc = "wire"], raised |-> FALSE]}
      [] t.pc = "wire" ->
           {[i |-> [i EXCEPT !.sent =
                        @ \cup {[id |-> t.id, method |-> method,
                                 params |-> params]}],
             t |-> [t EXCEPT !.pc = "load"], raised |-> FALSE]}
           \cup (IF i.open THEN {}
                 ELSE {[i |-> i, t |-> Idle, raised |-> TRUE]})
      [] t.pc = "load" ->
           {[i |-> i, t |-> [t EXCEPT !.pc = "incr", !.tmp = i.message_id],
             raised |-> FALSE]}
      [] t.pc = "incr" ->
           {[i |-> [i EXCEPT !.message_id = t.tmp + 1],
             t |-> Idle, raised |-> FALSE]}

\* the end of listen_thread, reached when recv returns '' or through the
\* except clause
listen_ends(i) ==
    [i EXCEPT !.is_connected = FALSE, !.disconnected_event = TRUE]

\* the message handled without looking at its id
dispatch_by_method(i, m) ==
    IF m.method = "address.subscribe"
    THEN [i |-> i, event |-> [op |-> "receive_status_callback",
                              addr |-> m.params[1], result |-> m.result]]
    ELSE [i |-> i, event |-> [op |-> "other", method |-> m.method]]

\* the body of listen_thread's inner loop for one message m from the server
dispatch(i, m) ==
    IF m.id = NoId
    THEN [i |-> i, event |-> [op |-> "error: message without ID"]]
    ELSE IF m.id \notin DOMAIN i.messages
    THEN [i |-> listen_ends(i), event |-> [op |-> "KeyError"]]
    ELSE LET method == i.messages[m.id].method
             params == i.messages[m.id].params
         IN CASE method = "address.subscribe" ->
                   [i |-> i,
                    event |-> [op |-> "receive_status_callback",
                               addr |-> params[1], result |-> m.result]]
              [] method = "address.get_history" ->
                   [i |-> i,
                    event |-> [op |-> "receive_history_callback",
                               addr |-> params[1], result |-> m.result]]
              [] method = "transaction.broadcast" ->
                   [i |-> [i EXCEPT !.tx_result = m.result,
                                    !.tx_event = TRUE],
                    event |-> [op |-> "tx_event.set"]]
              [] OTHER -> [i |-> i, event |-> [op |-> "other",
                                               method |-> method]]

\* the results a server may send
NetResults == {"r"}

\* the messages a server may write to a session: with the id of a request of
\* the session, with an id no request had, or without an id, a notification
\* that names its subscription
ServerMessages(i, subs) ==
    [id : {r.id : r \in i.sent} \cup {i.message_id + 1},
     method : {"None"}, params : {<<>>}, result : NetResults]
    \cup [id : {NoId}, method : {"address.subscribe"},
          params : {<<a>> : a \in Range(subs)}, result : NetResults]

\* the new interface, had it taken over the disconnected_event of the old
Replaced_same_event(t) ==
    [t EXCEPT !.i = [NewTCPInterface EXCEPT
                        !.disconnected_event = t.i.disconnected_event],
              !.loop = [pc |-> "start", k |-> 0, subs |-> <<>>, s |-> Idle]]

\* wallet.interface = new_interface(wallet): a thread inside send_tx keeps
\* the interface it was called on
Replaced(t) ==
    [t EXCEPT !.i = NewTCPInterface,
              !.loop = [pc |-> "start", k |-> 0, subs |-> <<>>, s |-> Idle],
              !.gui = IF t.gui.pc = "idle" THEN t.gui
                      ELSE [@ EXCEPT !.stale = TRUE,
                                     !.pc = IF t.gui.pc = "wait"
                                               /\ t.i.tx_event
                                            THEN "set" ELSE @]]

----------------------------------------------------------------------------
(* The device manager (lib/plugins.py).  A client is the pair of a device   *)
(* id and the port it was created on; dev.calls lists the wallet callbacks  *)
(* of the operation under way, each with whether the calling thread held    *)
(* the manager's lock when it made the call.                                *)

\* Bound on the length of DeviceMgr.clients.
MaxClients == 3

DeviceIds == {1, 2}
Ports == {"a", "b"}
HwWallets == {"w1", "w2", "w3"}

\* None, for a device id, a client, a wallet and a port
NoDevice == 0
NoClient == [id |-> NoDevice, path |-> "None"]
NoWallet == "None"
Unplugged == "None"

\* the device whose first address is the wallet's; w1 and w3 are two wallets
\* of the same device
DeviceOf(wallet) == IF wallet = "w2" THEN 2 ELSE 1

\* no scan_devices is suspended between its wallet_by_device_id and its
\* pair_wallet
NoPending == [wallet |-> NoWallet, client |-> NoClient, rest |-> <<>>,
              fails |-> {}]

\* DeviceMgr.__init__, with nothing plugged in
InitDev ==
    dev = [wallets |-> EmptyDict, clients |-> <<>>,
           present |-> [d \in DeviceIds |-> Unplugged],
           calls |-> <<>>, last |-> [op |-> "init"], pending |-> NoPending]

\* list.remove: the first occurrence goes
RECURSIVE Remove(_, _)
Remove(list, x) ==
    IF list = <<>> THEN <<>>
    ELSE IF Head(list) = x THEN Tail(list)
    ELSE <<Head(list)>> \o Remove(Tail(list), x)

\* the loop of client_by_device_id
RECURSIVE first_client(_, _)
first_client(clients, device_id) ==
    IF clients = <<>> THEN NoClient
    ELSE IF Head(clients).id = device_id THEN Head(clients)
    ELSE first_client(Tail(clients), device_id)

\* DeviceMgr.client_by_device_id
client_by_device_id(m, device_id) == first_client(m.clients, device_id)

\* DeviceMgr.wallet_by_device_id
wallet_by_device_id(m, device_id) ==
    IF \E w \in DOMAIN m.wallets : m.wallets[w] = device_id
    THEN CHOOSE w \in DOMAIN m.wallets : m.wallets[w] = device_id
    ELSE NoWallet

\* a callback of the wallet; held tells whether the calling thread holds
\* the lock
Call(m, cb, wallet, held) ==
    [m EXCEPT !.calls = Append(@, [cb |-> cb, wallet |-> wallet,
                                   locked |-> held])]

\* DeviceMgr.close_client, had it unpaired the wallet of the device too
close_client_unpairing(m, client) ==
    [m EXCEPT !.clients = Remove(@, client),
              !.wallets = [w \in {x \in DOMAIN @ : @[x] # client.id} |-> @[w]]]

\* DeviceMgr.close_client
close_client(m, client) ==
    IF client \in Range(m.clients)
    THEN [m EXCEPT !.clients = Remove(@, client)]
    ELSE m

\* DeviceMgr.close_wallet
close_wallet(m, wallet) ==
    LET device_id == IF wallet \in DOMAIN m.wallets THEN m.wallets[wallet]
                     ELSE NoDevice
    IN close_client([m EXCEPT !.wallets = Pop(@, wallet)],
                    client_by_device_id(m, device_id))

\* DeviceMgr.pair_wallet, called by a thread that holds the lock or not
pair_wallet(m, wallet, client, held) ==
    Call([m EXCEPT !.wallets = Put(@, wallet, client.id)],
         "connected", wallet, held)

\* scan_devices: "Close disconnected clients after informing their wallets"
RECURSIVE close_disconnected(_, _, _)
close_disconnected(m, disconnected, held) ==
    IF disconnected = <<>> THEN m
    ELSE LET client == Head(disconnected)
             wallet == wallet_by_device_id(m, client.id)
             told == IF wallet # NoWallet
                     THEN Call(m, "disconnected", wallet, held)
                     ELSE m
         IN close_disconnected(close_client(told, client),
                               Tail(disconnected), held)

\* scan_devices: "Now see if any new devices are present", for the devices
\* in the order the dict gives them; create_client raises for those of fails
RECURSIVE create_clients(_, _, _, _)
create_clients(m, order, fails, held) ==
    IF order = <<>> THEN m
    ELSE LET device_id == Head(order)
             client == [id |-> device_id, path |-> m.present[device_id]]
             added == [m EXCEPT !.clients = Append(@, client)]
             wallet == wallet_by_device_id(added, device_id)
         IN create_clients(
               IF device_id \in fails THEN m
               ELSE IF wallet # NoWallet
                    THEN pair_wallet(added, wallet, client, held)
               ELSE added,
               Tail(order), fails, held)

\* scan_devices' loop over the devices up to the first wallet_by_device_id
\* that gives a wallet: the client is in the list, the wallet is read, and
\* pair_wallet is still to be called
RECURSIVE create_upto(_, _, _)
create_upto(m, order, fails) ==
    IF order = <<>> THEN m
    ELSE LET device_id == Head(order)
             client == [id |-> device_id, path |-> m.present[device_id]]
             added == [m EXCEPT !.clients = Append(@, client)]
             wallet == wallet_by_device_id(added, device_id)
         IN IF device_id \in fails THEN create_upto(m, Tail(order), fails)
            ELSE IF wallet # NoWallet
            THEN [added EXCEPT !.pending = [wallet |-> wallet,
                                            client |-> client,
                                            rest |-> Tail(order),
                                            fails |-> fails]]
            ELSE create_upto(added, Tail(order), fails)

\* the rest of a suspended scan_devices: pair_wallet, whose assert raises
\* when the client has been closed meanwhile, and the devices left
resume_scan(m) ==
    LET p == m.pending
        cleared == [m EXCEPT !.pending = NoPending]
    IN IF p.client \in Range(m.clients)
       THEN create_clients(pair_wallet(cleared, p.wallet, p.client, FALSE),
                           p.rest, p.fails, FALSE)
       ELSE cleared

\* the sequences that list the members of a set once each
Orders(set) ==
    {o \in [1..Cardinality(set) -> set] : Range(o) = set}

\* the devices hid.enumerate finds
Devices(m) == {d \in DeviceIds : m.present[d] # Unplugged}

\* DeviceMgr.scan_devices, entered by a thread that holds the lock or not
scan_devices(m, order, fails, held) ==
    LET disconnected == SelectSeq(m.clients,
                                  LAMBDA c : c.id \notin Devices(m))
    IN create_clients(close_disconnected(m, disconnected, held),
                      order, fails, held)

\* get_client's last part: the unpaired clients are asked for their first
\* address, under the lock
RECURSIVE pair_first(_, _, _)
pair_first(m, clients, wallet) ==
    IF clients = <<>> THEN [m |-> m, client |-> NoClient]
    ELSE IF wallet_by_device_id(m, Head(clients).id) # NoWallet
    THEN pair_first(m, Tail(clients), wallet)
    ELSE IF Head(clients).id = DeviceOf(wallet)
    THEN [m |-> pair_wallet(m, wallet, Head(clients), TRUE),
          client |-> Head(clients)]
    ELSE pair_first(m, Tail(clients), wallet)

\* DeviceMgr.get_client; lookup is "CACHED", "PRESENT" or "PAIRED", and
\* has_address tells whether wallet.first_address() gives an address
get_client(m, wallet, lookup, has_address, order, fails) ==
    LET device_id == IF wallet \in DOMAIN m.wallets THEN m.wallets[wallet]
                     ELSE NoDevice
        client == client_by_device_id(m, device_id)
        scanned == scan_devices(m, order, fails, FALSE)
    IN IF client # NoClient THEN [m |-> m, client |-> client]
       ELSE IF lookup = "CACHED" \/ ~has_address
       THEN [m |-> m, client |-> NoClient]
       ELSE IF device_id # NoDevice
       THEN [m |-> scanned, client |-> client_by_device_id(scanned, device_id)]
       ELSE IF lookup = "PRESENT"
       THEN [m |-> scanned, client |-> NoClient]
       ELSE pair_first(scanned, scanned.clients, wallet)

----------------------------------------------------------------------------
(* The daemon (lib/daemon.py).  Time is counted in timeouts of accept (one  *)
(* second each): it passes while the listen thread waits for a connection.  *)
(* idle is time.time() - t; quiet is the time since a client was last       *)
(* registered, which the program does not keep.                             *)

\* Bound on len(NetworkServer.clients).
MaxDaemonClients == 2
\* self.timeout = config.get('daemon_timeout', 5*60), in accept timeouts
DaemonTimeout == 2

\* Bound on the number of responses waiting in network_queue.
MaxResponses == 1

DaemonClients == 1..MaxDaemonClients

\* NetworkServer.__init__
InitDaemon ==
    daemon = [running |-> FALSE, clients |-> {}, quitting |-> {},
              network_queue |-> 0, idle |-> 0, quiet |-> 0,
              main |-> "init", listen |-> "init"]

\* the branch taken when accept times out, had it left t alone while
\* clients are registered
on_timeout_keeping_t(d) ==
    LET waited == [d EXCEPT !.idle = @ + 1,
                            !.quiet = IF d.clients = {} THEN @ + 1 ELSE 0]
    IN IF waited.clients = {} /\ waited.idle > DaemonTimeout
       THEN [waited EXCEPT !.listen = "timeout"]
       ELSE waited

\* listen_thread, except socket.timeout: one more second has passed
on_timeout(d) ==
    LET waited == [d EXCEPT !.idle = @ + 1,
                            !.quiet = IF d.clients = {} THEN @ + 1 ELSE 0]
    IN IF waited.clients = {}
       THEN IF waited.idle > DaemonTimeout
            THEN [waited EXCEPT !.listen = "timeout"]
            ELSE waited
       ELSE [waited EXCEPT !.idle = 0]

----------------------------------------------------------------------------
(* Polling sessions: the native protocol between the server's sessions      *)
(* (server/server.py) and the client's poll thread (client/interface.py),   *)
(* whose rounds do what Wallet.update does.  The server's clock is kept as  *)
(* the age of each session, in periods of clean_session_thread.             *)

\* if t - t0 > 60, in periods of clean_session_thread
SessionTimeout == 1

\* session_id = random_string(10): the one client has one session at a time
SessionIds == {1}
\* interface.session_id before start_session has set it
NoSession == 0

\* the address whose history changes on the server, and what it may be
Watched == {Derive(0, FALSE)}
StoreChoices(a) == HistChoices

\* store.get_txpoints(addr)
get_txpoints(s, addr) == IF addr \in DOMAIN s.store THEN s.store[addr] ELSE <<>>

\* a new NativeInterface and its threads: no session, loop_interfaces_thread
\* about to call start_session
NewNativeInterface(s) ==
    [s EXCEPT !.session_id = NoSession, !.is_connected = FALSE,
              !.disconnected_event = FALSE, !.is_up_to_date = FALSE,
              !.pc = "start", !.changed = <<>>]

InitSession ==
    session = [store |-> [a \in Watched |-> <<>>], stable |-> FALSE,
               sessions |-> EmptyDict, age |-> EmptyDict,
               session_id |-> NoSession, is_connected |-> FALSE,
               disconnected_event |-> FALSE, is_up_to_date |-> FALSE,
               pc |-> "start", changed |-> <<>>]

\* client_thread, cmd 'session': every address starts with the status ''
new_session(s, session_id, addrs) ==
    [s EXCEPT !.sessions = Put(@, session_id, [a \in addrs |-> ""]),
              !.age = Put(@, session_id, 0)]

\* client_thread, cmd 'poll': (block_number, ret), or (-1, {}) when the
\* session is not found
poll_ret(s, session_id) ==
    IF session_id \notin DOMAIN s.sessions THEN EmptyDict
    ELSE LET last_status == s.sessions[session_id]
             ret == {a \in DOMAIN last_status :
                        last_status[a] # StatusOf(get_txpoints(s, a))}
         IN [a \in ret |-> StatusOf(get_txpoints(s, a))]

session_found(s, session_id) ==
    /\ session_id \in DOMAIN s.sessions
    /\ DOMAIN s.sessions[session_id] # {}

\* the server after the poll
polled(s, session_id) ==
    IF ~session_found(s, session_id) THEN s
    ELSE [s EXCEPT
            !.sessions[session_id] =
                [a \in DOMAIN @ |-> StatusOf(get_txpoints(s, a))],
            !.age[session_id] = 0]

\* poll, had it taken the answer (-1, {}) for a poll without news
session_lost_ignored(height) == FALSE

\* if blocks == -1: raise BaseException("session not found")
session_lost(height) == height = -1

\* the loop of update for one reported address: the history is asked for
\* now, the status stored is the one the poll gave
receive_status(w, s, addr, blk_hash) ==
    IF needs_history(w, addr, blk_hash)
    THEN [w EXCEPT !.history = Put(@, addr, get_txpoints(s, addr)),
                   !.status = Put(@, addr, blk_hash)]
    ELSE w

\* the reported addresses from the first whose status is new to the wallet:
\* the loop of update passes the others without a request
RECURSIVE to_retrieve(_, _)
to_retrieve(w, changed) ==
    IF changed = <<>> THEN <<>>
    ELSE IF needs_history(w, Head(changed).addr, Head(changed).blk_hash)
    THEN changed
    ELSE to_retrieve(w, Tail(changed))

\* synchronize, the server answering the history requests from its store
synchronized(w, s) ==
    {r \in synchronize(w) :
        \A a \in Range(all_addresses(r.w)) \ Range(all_addresses(w)) :
            r.w.history[a] = get_txpoints(s, a)}

----------------------------------------------------------------------------
(* The verifier's state before anything happened *)

InitSPV ==
    /\ verified_tx = EmptyDict
    /\ unverified_tx = EmptyDict
    /\ merkle_roots = EmptyDict
    /\ queue = <<>>
    /\ requested_merkle = <<>>
    /\ headers = EmptyDict
    /\ unanswered = {}
    /\ spv_last = [op |-> "init"]

----------------------------------------------------------------------------
(* The wallet's operations *)

Init ==
    /\ master_public_key = "None"
    /\ addresses = <<>>
    /\ change_addresses = <<>>
    /\ history = EmptyDict
    /\ status = EmptyDict
    /\ tx_history = EmptyDict
    /\ addressbook = <<>>
    /\ labels = EmptyDict
    /\ blocks = 0
    /\ use_encryption = FALSE
    /\ seed = Text(EmptyString)
    /\ seed_version = SeedVersion
    /\ self_fee = Whole(WalletFee)
    /\ file = NoFile
    /\ last = [op |-> "init"]
    /\ InitSPV
    /\ InitTCP
    /\ InitDev
    /\ InitDaemon
    /\ InitSession

\* wallet = Wallet(options.wallet_path): a new process opens the wallet
Construct ==
    /\ master_public_key # "None"
    /\ SetWallet(NewWallet(file))
    /\ last' = [op |-> "init"]
    /\ UNCHANGED <<svars, xvars>>

\* what can be answered at a password prompt: "" is just return
PromptAnswers == {""} \cup Passwords

\* Wallet.new_seed: init_mpk(seed), then the seed is stored
new_seed(w, sd, password) ==
    [w EXCEPT !.master_public_key = "mpk",
              !.seed = pw_encode(Text(sd), password)]

\* the create command without a seed to restore.  password is what was
\* typed (and confirmed) at the password prompt, typed the float of what
\* was typed at the fee prompt (<<>> for just return); a confirmation that
\* differs exits before anything is done.  The call is new_seed(None).
CreateCommand(password, typed) ==
    /\ master_public_key = "None"
    /\ ~file.exists
    /\ \E sd \in Seeds, h \in ServerHistories(Derive(0, FALSE)) :
          SetWallet(create_new_address2(
                       new_seed([W EXCEPT !.fee = IF typed = <<>> THEN @
                                                 ELSE typed[1]],
                                sd, ""),
                       FALSE, h))
    /\ last' = [op |-> "create", password |-> password]
    /\ UNCHANGED <<svars, xvars>>

\* the create command, had it not generated the first key
Create_nokey ==
    /\ master_public_key = "None"
    /\ ~file.exists
    /\ \E sd \in Seeds, password \in PromptAnswers :
          /\ SetWallet(save(new_seed(W, sd, "")))
          /\ last' = [op |-> "create", password |-> password]
    /\ UNCHANGED <<svars, xvars>>

\* the create command with the fee prompt answered by return
Create == \E password \in PromptAnswers : CreateCommand(password, <<>>)

\* the create command with a fee typed in
CreateFee ==
    \E password \in PromptAnswers, f \in TypedFees :
       CreateCommand(password, <<f>>)

Read ==
    /\ LET end == read_end(W)
       IN /\ SetWallet(CASE end \in {"ok", "version"} -> read(W)
                         [] end = "parse" /\ file.content = "record" ->
                                read_until_fee(W)
                         [] OTHER -> W)
          /\ last' = [op |-> "read", ok |-> end = "ok", end |-> end]
    /\ UNCHANGED <<svars, xvars>>

Save ==
    /\ master_public_key # "None"
    /\ SetWallet(save(W))
    /\ last' = [op |-> "save"]
    /\ UNCHANGED <<svars, xvars>>

GetNewAddress ==
    /\ master_public_key # "None"
    /\ \E h \in ServerHistories(next_address(W, FALSE)) :
          LET r == get_new_address(W, h)
          IN /\ Len(r.w.addresses) <= MaxRecv
             /\ SetWallet(r.w)
             /\ last' = [op |-> "get_new_address", ok |-> r.ok,
                         addr |-> r.addr]
    /\ UNCHANGED <<svars, xvars>>

Synchronize ==
    /\ master_public_key # "None"
    /\ \E r \in synchronize(W) :
          /\ SetWallet(r.w)
          /\ last' = [op |-> "synchronize", ok |-> r.ret]
    /\ UNCHANGED <<svars, xvars>>

\* the password command: the old password is asked for only when
\* use_encryption is set
Password ==
    /\ master_public_key # "None"
    /\ \E password \in (IF use_encryption THEN PromptAnswers ELSE {""}),
          new_password \in PromptAnswers, confirm \in PromptAnswers :
          LET r == pw_decode(seed, password)
              w1 == [W EXCEPT !.use_encryption = new_password # "",
                              !.seed = pw_encode(r.d, new_password)]
          IN IF r.raised
             THEN /\ SetWallet(W)
                  /\ last' = [op |-> "password", ok |-> FALSE,
                              msg |-> "sorry", old |-> password,
                              new |-> new_password]
             ELSE IF new_password # confirm
             THEN /\ SetWallet(W)
                  /\ last' = [op |-> "password", ok |-> FALSE,
                              msg |-> "error: mismatch", old |-> password,
                              new |-> new_password]
             ELSE /\ Len(w1.seed.keys) <= MaxLayers
                  /\ SetWallet(save(w1))
                  /\ last' = [op |-> "password", ok |-> TRUE, msg |-> "",
                              old |-> password, new |-> new_password]
    /\ UNCHANGED <<svars, xvars>>

\* the file after open(self.path,"w") and before f.write
Truncated == [exists |-> TRUE, content |-> "empty"]

\* the process stops in save(): before open(), between open() and the end
\* of the write, or after close().  The next process starts from
\* Wallet.__init__.
SaveCrash ==
    /\ master_public_key # "None"
    /\ \E point \in {"before open", "after open", "after close"} :
          /\ SetWallet(NewWallet(CASE point = "before open" -> file
                                   [] point = "after open" -> Truncated
                                   [] OTHER -> save(W).file))
          /\ last' = [op |-> "crash", point |-> point]
    /\ UNCHANGED <<svars, xvars>>

\* the file at the wallet's path is replaced by one that save() did not
\* write: keys are missing from it, or its seed version is another one
ForeignFile ==
    /\ file.exists
    /\ file.content = "record"
    /\ file.missing = {}
    /\ file.seed_version = SeedVersion
    /\ \E m \in SUBSET Missable, v \in {SeedVersion, "old"} :
          /\ m # {} \/ v # SeedVersion
          /\ file' = [file EXCEPT !.missing = m, !.seed_version = v]
    /\ last' = [op |-> "replace"]
    /\ UNCHANGED <<master_public_key, addresses, change_addresses, history,
                   status, tx_history, addressbook, labels, blocks,
                   use_encryption, seed, seed_version, self_fee>>
    /\ UNCHANGED <<svars, xvars>>

\* poll answered (-1, {}): "session not found" is raised
UpdateNoSession ==
    /\ master_public_key # "None"
    /\ last' = [op |-> "update", ok |-> FALSE, raised |-> TRUE]
    /\ UNCHANGED <<master_public_key, addresses, change_addresses, history,
                   status, tx_history, addressbook, labels, blocks,
                   use_encryption, seed, seed_version, self_fee, file>>
    /\ UNCHANGED <<svars, xvars>>

Update ==
    /\ master_public_key # "None"
    /\ \E changed \in PollSets(W) : \E srv \in ServerAnswers(changed) :
          \E r \in update(W, 2, changed, srv) :
             /\ SetWallet(r.w)
             /\ last' = [op |-> "update", ok |-> r.ok, raised |-> FALSE]
    /\ UNCHANGED <<svars, xvars>>

Amounts == {-50000, 50000, 100000}
FixedFees == {[given |-> FALSE, fee |-> 0], [given |-> TRUE, fee |-> 50000]}
Labels == {"", "L"}

\* mktx runs in a process that has read the file, where the fee is
\* int( d.get('fee') )
Mktx ==
    /\ master_public_key # "None"
    /\ self_fee.frac = 0
    /\ \E to \in Recipients \cup Malformed, amount \in Amounts,
          label \in Labels, pwok \in BOOLEAN, fx \in FixedFees,
          h \in ServerHistories(next_address(W, TRUE)) :
          \E r \in {mktx(W, to, amount, label, pwok, fx, h)} :
             /\ Len(r.w.change_addresses) <= MaxChange
             /\ Cardinality(DOMAIN r.w.labels) <= MaxLabels
             /\ SetWallet(r.w)
             /\ last' = [op |-> "mktx", ok |-> r.ok, msg |-> r.msg,
                         amount |-> amount, inputs |-> r.inputs,
                         outputs |-> r.outputs, fee |-> r.fee]
    /\ UNCHANGED <<svars, xvars>>

\* The wallet's life without payments.
Next ==
    \/ Construct
    \/ Create
    \/ Read
    \/ Save
    \/ GetNewAddress
    \/ Synchronize
    \/ UpdateNoSession
    \/ Update

Spec == Init /\ [][Next]_vars

\* A wallet that is created, kept up to date and pays.
NextTx ==
    \/ Create
    \/ Update
    \/ Mktx

SpecTx == Init /\ [][NextTx]_vars

\* The wallet file and the seed in it: creation, password changes, loading,
\* a process that stops while saving, a file from elsewhere.
NextStore ==
    \/ Construct
    \/ Create
    \/ CreateFee
    \/ Read
    \/ Save
    \/ Password
    \/ SaveCrash
    \/ ForeignFile

SpecStore == Init /\ [][NextStore]_vars

----------------------------------------------------------------------------
(* The verifier's operations and its surroundings *)

\* the wallet learns of a transaction at some height
AddUnverified ==
    /\ \E t \in TxHashes, h \in Heights :
          /\ t \notin DOMAIN verified_tx
          /\ unverified_tx' = Put(unverified_tx, t, h)
          /\ spv_last' = [op |-> "wallet"]
    /\ UNCHANGED <<verified_tx, merkle_roots, queue, requested_merkle, headers,
                   unanswered>>
    /\ UNCHANGED <<wvars, xvars>>

\* the header chain grows by one header, or a header of it is replaced
SetHeader ==
    /\ \E h \in Heights, hd \in Headers :
          /\ h <= get_local_height(S) + 1
          /\ headers' = Put(headers, h, hd)
          /\ spv_last' = [op |-> "network"]
    /\ UNCHANGED <<verified_tx, unverified_tx, merkle_roots, queue,
                   requested_merkle, unanswered>>
    /\ UNCHANGED <<wvars, xvars>>

\* what run() makes of the response r: an error is skipped, verify_merkle
\* returns early without a header or on another root, or stamps
Verdict(s, r) ==
    IF r.error THEN "error"
    ELSE IF r.result.block_height \notin DOMAIN s.headers THEN "no header"
    ELSE IF ~root_matches(s.headers[r.result.block_height],
                          hash_merkle_root(r.result.merkle, r.params[1],
                                           r.result.pos))
         THEN "mismatch"
    ELSE "verified"

\* the transactions stamped at a height >= height, which a reorganization
\* from that height on calls undo_verifications for
Stale(s, height) ==
    {t \in DOMAIN s.verified_tx : s.verified_tx[t].height >= height}

\* the for loop of run(): sent is the set of requests network.send accepted
RunRequest ==
    /\ \E sent \in SUBSET to_request(S) :
          /\ requested_merkle' = requested_merkle \o SortedKeys(sent)
          /\ unanswered' = unanswered \cup sent
          /\ spv_last' = [op |-> "run", verdict |-> "request"]
    /\ UNCHANGED <<verified_tx, unverified_tx, merkle_roots, queue, headers>>
    /\ UNCHANGED <<wvars, xvars>>

\* the network hands the answer to a request to self.queue.put: an error, or
\* whatever result the server chose
Respond ==
    /\ \E t \in unanswered, e \in BOOLEAN :
          \E res \in (IF e THEN {NoResult} ELSE MerkleResults) :
             /\ queue' = Append(queue,
                            [error |-> e,
                             method |-> "blockchain.transaction.get_merkle",
                             params |-> <<t>>, result |-> res])
             /\ unanswered' = unanswered \ {t}
    /\ spv_last' = [op |-> "network"]
    /\ UNCHANGED <<verified_tx, unverified_tx, merkle_roots, requested_merkle,
                   headers>>
    /\ UNCHANGED <<wvars, xvars>>

\* the rest of run()'s loop body: take a response and handle it
RunHandle ==
    /\ queue # <<>>
    /\ LET r == Head(queue)
           s == [S EXCEPT !.queue = Tail(queue)]
       IN IF r.error THEN SetSPV(s)
          ELSE SetSPV(verify_merkle(s, r.params[1], r.result))
    /\ spv_last' = [op |-> "run", verdict |-> Verdict(S, Head(queue)),
                    tx |-> Head(queue).params[1]]
    /\ UNCHANGED unanswered
    /\ UNCHANGED <<wvars, xvars>>

UndoVerifications ==
    /\ \E h \in ResponseHeights :
          LET r == undo_verifications(S, h)
          IN /\ SetSPV(r.s)
             /\ spv_last' = [op |-> "undo_verifications", height |-> h,
                             raised |-> r.raised, stale |-> Stale(S, h)]
    /\ UNCHANGED unanswered
    /\ UNCHANGED <<wvars, xvars>>

NextSPV ==
    \/ AddUnverified
    \/ SetHeader
    \/ RunRequest
    \/ Respond
    \/ RunHandle
    \/ UndoVerifications

SpecSPV == Init /\ [][NextSPV]_vars

\* the siblings of the two-level branches a server may send
TwoLevelSiblings == {3, 4}

\* the results of a server whose branches have two levels
TwoLevelResults ==
    [block_height : ResponseHeights, pos : 0..3,
     merkle : TwoLevelSiblings \X TwoLevelSiblings]

\* the network hands over the answer to a request: an error, or one of the
\* given results
RespondFrom(results) ==
    /\ \E t \in unanswered, e \in BOOLEAN :
          \E res \in (IF e THEN {NoResult} ELSE results) :
             /\ queue' = Append(queue,
                            [error |-> e,
                             method |-> "blockchain.transaction.get_merkle",
                             params |-> <<t>>, result |-> res])
             /\ unanswered' = unanswered \ {t}
    /\ spv_last' = [op |-> "network"]
    /\ UNCHANGED <<verified_tx, unverified_tx, merkle_roots, requested_merkle,
                   headers>>
    /\ UNCHANGED <<wvars, xvars>>

\* the answer of a server whose blocks hold three or four transactions
RespondTwoLevel == RespondFrom(TwoLevelResults)

NextMerkle ==
    \/ AddUnverified
    \/ SetHeader
    \/ RunRequest
    \/ RespondTwoLevel
    \/ RunHandle

SpecMerkle == Init /\ [][NextMerkle]_vars

\* the results of a server whose blocks hold two transactions
OneLevelResults ==
    [block_height : Heights, pos : {0, 1}, merkle : {<<x>> : x \in Siblings}]

\* the answer of a server whose blocks hold two transactions
RespondOneLevel == RespondFrom(OneLevelResults)

\* a pass of run()'s for loop in which network.send accepts the request for t
RequestOf(t) ==
    /\ RunRequest
    /\ t \in unanswered'

NextRun ==
    \/ AddUnverified
    \/ SetHeader
    \/ RunRequest
    \/ RespondOneLevel
    \/ RunHandle
    \/ UndoVerifications

SpecRun == Init /\ [][NextRun]_vars

\* The verifier thread keeps running: a request that stays due is sent in
\* some pass, every request is answered, and every answer is taken from
\* the queue.
SpecRunFair ==
    /\ SpecRun
    /\ \A t \in TxHashes : WF_vars(RequestOf(t))
    /\ WF_vars(RespondOneLevel)
    /\ WF_vars(RunHandle)

----------------------------------------------------------------------------
(* The threads of the TCP interface and the server behind it *)

\* the wallet as the create command leaves it when the server knows nothing
\* of its first address
WalletIs(w) ==
    /\ master_public_key = w.master_public_key
    /\ addresses = w.addresses
    /\ change_addresses = w.change_addresses
    /\ history = w.history
    /\ status = w.status
    /\ tx_history = w.tx_history
    /\ addressbook = w.addressbook
    /\ labels = w.labels
    /\ blocks = w.blocks
    /\ use_encryption = w.use_encryption
    /\ seed = w.seed
    /\ seed_version = w.seed_version
    /\ self_fee = w.fee
    /\ file = w.file

\* the state in which loop_interfaces_thread is started: a wallet that was
\* created, and an interface that has no session yet
InitNet ==
    /\ \E sd \in Seeds :
          WalletIs(create_new_address2(new_seed(NewWallet(NoFile), sd, ""),
                                       FALSE, <<>>))
    /\ last = [op |-> "create", password |-> ""]
    /\ InitSPV
    /\ InitTCP
    /\ InitDev
    /\ InitDaemon
    /\ InitSession

Note(t, op) == [t EXCEPT !.last = [op |-> op]]

\* loop_interfaces_thread: start_session connects and starts listen_thread,
\* which sets is_connected
StartSession ==
    /\ tcp.loop.pc = "start"
    /\ tcp' = [tcp EXCEPT !.i.open = TRUE, !.i.is_connected = TRUE,
                          !.loop.pc = "send", !.loop.k = 1,
                          !.loop.s.pc = "dump"]
    /\ UNCHANGED <<wvars, svars, dev, daemon, session>>

\* connect raises socket.error: "socket error", sleep, a new interface
StartSocketError ==
    /\ tcp.loop.pc = "start"
    /\ tcp' = Note(Replaced(tcp), "socket error")
    /\ UNCHANGED <<wvars, svars, dev, daemon, session>>

\* start_session raises something else: "continue" with the same interface
StartOtherError ==
    /\ tcp.loop.pc = "start"
    /\ tcp' = Note(tcp, "exception")
    /\ UNCHANGED <<wvars, svars, dev, daemon, session>>

\* the loop thread takes a step of the send() it is in; the list of
\* addresses is read when the for loop of start_session begins
LoopSend ==
    /\ tcp.loop.pc = "send"
    /\ LET script == Script(tcp.loop.subs)
           job == script[tcp.loop.k]
       IN \E r \in send_step(tcp.i, tcp.loop.s, job.method, job.params) :
             tcp' =
                IF r.raised
                THEN Note(Replaced([tcp EXCEPT !.i = r.i]), "socket error")
                ELSE IF r.t.pc # "idle"
                THEN Note([tcp EXCEPT !.i = r.i, !.loop.s = r.t], "step")
                ELSE LET subs == IF tcp.loop.k = 3 THEN all_addresses(W)
                                 ELSE tcp.loop.subs
                     IN Note([tcp EXCEPT
                                 !.i = r.i,
                                 !.loop.subs = subs,
                                 !.loop.k = @ + 1,
                                 !.loop.pc =
                                    IF tcp.loop.k = Len(Script(subs))
                                    THEN "wait" ELSE "send",
                                 !.loop.s =
                                    IF tcp.loop.k = Len(Script(subs))
                                    THEN Idle
                                    ELSE [Idle EXCEPT !.pc = "dump"]],
                             "step")
    /\ UNCHANGED <<wvars, svars, dev, daemon, session>>

\* disconnected_event.wait() returns: "Disconnected", a new interface
LoopWake ==
    /\ tcp.loop.pc = "wait"
    /\ tcp.i.disconnected_event
    /\ tcp' = Note(Replaced(tcp), "Disconnected")
    /\ UNCHANGED <<wvars, svars, dev, daemon, session>>

\* listen_thread: recv returns a message, which is dispatched, or '' after
\* the server closed, which ends the thread
Listen ==
    /\ tcp.i.is_connected
    /\ IF tcp.i.inbox # <<>>
       THEN LET d == dispatch([tcp.i EXCEPT !.inbox = Tail(@)],
                              Head(tcp.i.inbox))
            IN tcp' = [tcp EXCEPT !.i = d.i, !.last = d.event]
       ELSE /\ ~tcp.i.open
            /\ tcp' = Note([tcp EXCEPT !.i = listen_ends(tcp.i)],
                           "disconnected.")
    /\ UNCHANGED <<wvars, svars, dev, daemon, session>>

\* the server writes a message to the connection
ServerSend ==
    /\ tcp.i.open
    /\ Len(tcp.i.inbox) < MaxInbox
    /\ \E m \in ServerMessages(tcp.i, all_addresses(W)) :
          tcp' = Note([tcp EXCEPT !.i.inbox = Append(@, m)], "step")
    /\ UNCHANGED <<wvars, svars, dev, daemon, session>>

\* the server closes the connection, or the connection breaks
ServerClose ==
    /\ tcp.i.open
    /\ tcp' = Note([tcp EXCEPT !.i.open = FALSE], "step")
    /\ UNCHANGED <<wvars, svars, dev, daemon, session>>

\* the transactions broadcast in this session
Broadcasts(i) == {r \in i.sent : r.method = "transaction.broadcast"}

\* another thread calls wallet.interface.send_tx: tx_event.clear()
SendTx ==
    /\ tcp.gui.pc = "idle"
    /\ tcp.loop.pc # "start"
    /\ Cardinality(Broadcasts(tcp.i)) < MaxTx
    /\ tcp' = Note([tcp EXCEPT !.i.tx_event = FALSE,
                               !.gui = [pc |-> "send", stale |-> FALSE,
                                        s |-> [Idle EXCEPT !.pc = "dump"]]],
                   "step")
    /\ UNCHANGED <<wvars, svars, dev, daemon, session>>

\* send_tx takes a step of its send(), then waits for tx_event
SendTxSend ==
    /\ tcp.gui.pc = "send"
    /\ ~tcp.gui.stale
    /\ \E r \in send_step(tcp.i, tcp.gui.s, "transaction.broadcast",
                          <<"tx">>) :
          tcp' = IF r.raised
                 THEN Note([tcp EXCEPT !.i = r.i, !.gui.pc = "idle",
                                       !.gui.s = Idle],
                           "send_tx raised")
                 ELSE Note([tcp EXCEPT !.i = r.i, !.gui.s = r.t,
                                       !.gui.pc = IF r.t.pc = "idle"
                                                  THEN "wait" ELSE "send"],
                           "step")
    /\ UNCHANGED <<wvars, svars, dev, daemon, session>>

\* tx_event.wait() returns
SendTxReturn ==
    /\ tcp.gui.pc = "wait"
    /\ ~tcp.gui.stale
    /\ tcp.i.tx_event
    /\ tcp' = [tcp EXCEPT !.gui.pc = "idle",
                          !.last = [op |-> "send_tx returned",
                                    result |-> tcp.i.tx_result]]
    /\ UNCHANGED <<wvars, svars, dev, daemon, session>>

\* send_tx on an interface that was replaced meanwhile: its send() raises
\* or goes through, nothing sets its tx_event any more
SendTxStale ==
    /\ tcp.gui.stale
    /\ \/ /\ tcp.gui.pc = "send"
          /\ \/ tcp' = Note([tcp EXCEPT !.gui.pc = "wait", !.gui.s = Idle],
                            "step")
             \/ tcp' = Note([tcp EXCEPT !.gui.pc = "idle", !.gui.s = Idle,
                                        !.gui.stale = FALSE],
                            "send_tx raised")
       \/ /\ tcp.gui.pc = "set"
          /\ tcp' = Note([tcp EXCEPT !.gui.pc = "idle", !.gui.stale = FALSE],
                         "send_tx returned late")
    /\ UNCHANGED <<wvars, svars, dev, daemon, session>>

NextNet ==
    \/ StartSession
    \/ StartSocketError
    \/ StartOtherError
    \/ LoopSend
    \/ LoopWake
    \/ Listen
    \/ ServerSend
    \/ ServerClose
    \/ SendTx
    \/ SendTxSend
    \/ SendTxReturn
    \/ SendTxStale

SpecNet == InitNet /\ [][NextNet]_vars

\* The threads keep running, and a connection attempt succeeds in the end.
SpecNetFair ==
    /\ SpecNet
    /\ WF_vars(StartSession)
    /\ WF_vars(LoopSend)
    /\ WF_vars(LoopWake)
    /\ WF_vars(Listen)
    /\ WF_vars(SendTxSend)
    /\ WF_vars(SendTxReturn)

\* the interface while no thread broadcasts a transaction
NextLoop ==
    \/ StartSession
    \/ StartSocketError
    \/ StartOtherError
    \/ LoopSend
    \/ LoopWake
    \/ Listen
    \/ ServerSend
    \/ ServerClose

SpecLoop == InitNet /\ [][NextLoop]_vars

\* loop_interfaces_thread and listen_thread keep running, and a connection
\* attempt succeeds in the end.
SpecLoopFair ==
    /\ SpecLoop
    /\ WF_vars(StartSession)
    /\ WF_vars(LoopSend)
    /\ WF_vars(LoopWake)
    /\ WF_vars(Listen)

----------------------------------------------------------------------------
(* The device manager's operations and the hardware *)

\* an operation begins with no callback made
NoCalls(m) == [m EXCEPT !.calls = <<>>]

\* a device is plugged into a free port
Plug ==
    /\ \E d \in DeviceIds, p \in Ports :
          /\ dev.present[d] = Unplugged
          /\ \A e \in DeviceIds : dev.present[e] # p
          /\ dev' = [NoCalls(dev) EXCEPT !.present[d] = p,
                                       !.last = [op |-> "plug", device |-> d]]
    /\ UNCHANGED <<wvars, svars, tcp, daemon, session>>

\* a device is pulled out
Unplug ==
    /\ \E d \in DeviceIds :
          /\ dev.present[d] # Unplugged
          /\ dev' = [NoCalls(dev) EXCEPT !.present[d] = Unplugged,
                                       !.last = [op |-> "unplug", device |-> d]]
    /\ UNCHANGED <<wvars, svars, tcp, daemon, session>>

ScanDevices ==
    /\ Len(dev.clients) < MaxClients
    /\ \E order \in Orders(Devices(dev)), fails \in SUBSET Devices(dev) :
          dev' = [scan_devices(NoCalls(dev), order, fails, FALSE)
                     EXCEPT !.last = [op |-> "scan_devices", fails |-> fails]]
    /\ UNCHANGED <<wvars, svars, tcp, daemon, session>>

GetClient ==
    /\ Len(dev.clients) < MaxClients
    /\ \E wallet \in HwWallets, lookup \in {"CACHED", "PRESENT", "PAIRED"},
          has_address \in BOOLEAN, order \in Orders(Devices(dev)),
          fails \in SUBSET Devices(dev) :
          LET r == get_client(NoCalls(dev), wallet, lookup, has_address, order,
                              fails)
          IN dev' = [r.m EXCEPT !.last = [op |-> "get_client",
                                          wallet |-> wallet,
                                          client |-> r.client]]
    /\ UNCHANGED <<wvars, svars, tcp, daemon, session>>

CloseWallet ==
    /\ \E wallet \in HwWallets :
          dev' = [close_wallet(NoCalls(dev), wallet)
                     EXCEPT !.last = [op |-> "close_wallet", wallet |-> wallet]]
    /\ UNCHANGED <<wvars, svars, tcp, daemon, session>>

\* a thread runs scan_devices up to the point where it has read the wallet
\* of a device it made a client for, and is suspended there
ScanSuspend ==
    /\ Len(dev.clients) < MaxClients
    /\ dev.pending = NoPending
    /\ \E order \in Orders(Devices(dev)), fails \in SUBSET Devices(dev) :
          LET disconnected == SelectSeq(dev.clients,
                                        LAMBDA c : c.id \notin Devices(dev))
              m == create_upto(close_disconnected(NoCalls(dev), disconnected,
                                                  FALSE),
                               order, fails)
          IN /\ m.pending # NoPending
             /\ dev' = [m EXCEPT !.last = [op |-> "scan_devices suspended"]]
    /\ UNCHANGED <<wvars, svars, tcp, daemon, session>>

\* the suspended thread goes on to the end of scan_devices
ScanResume ==
    /\ dev.pending # NoPending
    /\ dev' = [resume_scan(NoCalls(dev))
                  EXCEPT !.last = [op |-> "scan_devices resumed"]]
    /\ UNCHANGED <<wvars, svars, tcp, daemon, session>>

NextDev ==
    \/ Plug
    \/ Unplug
    \/ ScanDevices
    \/ GetClient
    \/ CloseWallet

SpecDev == Init /\ [][NextDev]_vars

\* the device manager used by several threads, one of which can be suspended
\* inside scan_devices; the devices stay plugged in
NextDevThreads ==
    \/ Plug
    \/ ScanSuspend
    \/ ScanResume
    \/ GetClient
    \/ CloseWallet

SpecDevThreads == Init /\ [][NextDevThreads]_vars

----------------------------------------------------------------------------
(* The daemon's threads and its clients *)

\* main_loop: self.running = True, and the listen thread is started
MainLoopStart ==
    /\ daemon.main = "init"
    /\ daemon' = [daemon EXCEPT !.running = TRUE, !.main = "loop",
                                !.listen = "start"]
    /\ UNCHANGED <<wvars, svars, tcp, dev, session>>

\* listen_thread up to its loop: t = time.time()
ListenStart ==
    /\ daemon.listen = "start"
    /\ daemon' = [daemon EXCEPT !.listen = "accept", !.idle = 0]
    /\ UNCHANGED <<wvars, svars, tcp, dev, session>>

\* accept returns a connection: t = time.time(), and ClientThread.__init__
\* registers the client
Accept ==
    /\ daemon.listen = "accept"
    /\ daemon.running
    /\ \E client \in DaemonClients \ daemon.clients :
          daemon' = [daemon EXCEPT !.idle = 0, !.quiet = 0,
                                   !.clients = @ \cup {client}]
    /\ UNCHANGED <<wvars, svars, tcp, dev, session>>

\* accept times out
AcceptTimeout ==
    /\ daemon.listen = "accept"
    /\ daemon.running
    /\ daemon' = on_timeout(daemon)
    /\ UNCHANGED <<wvars, svars, tcp, dev, session>>

\* the listen thread finds self.running false at the head of its loop
ListenStopped ==
    /\ daemon.listen = "accept"
    /\ ~daemon.running
    /\ daemon' = [daemon EXCEPT !.listen = "stopped"]
    /\ UNCHANGED <<wvars, svars, tcp, dev, session>>

\* after the loop: self.stop()
ListenExit ==
    /\ daemon.listen \in {"timeout", "stopped"}
    /\ daemon' = [daemon EXCEPT !.running = FALSE,
                                !.listen = IF @ = "timeout" THEN "timed out"
                                           ELSE "done"]
    /\ UNCHANGED <<wvars, svars, tcp, dev, session>>

\* a ClientThread's loops end (its client has closed the pipe, or sending
\* to it failed): self.running = False
ClientQuit ==
    /\ \E client \in daemon.clients \ daemon.quitting :
          daemon' = [daemon EXCEPT !.quitting = @ \cup {client}]
    /\ UNCHANGED <<wvars, svars, tcp, dev, session>>

\* ClientThread.run, after its loop: remove_client
RemoveClient ==
    /\ \E client \in daemon.quitting :
          daemon' = [daemon EXCEPT !.clients = @ \ {client},
                                   !.quitting = @ \ {client}, !.quiet = 0]
    /\ UNCHANGED <<wvars, svars, tcp, dev, session>>

\* the network puts a response on network_queue
NetworkResponse ==
    /\ daemon.running
    /\ daemon.network_queue < MaxResponses
    /\ daemon' = [daemon EXCEPT !.network_queue = @ + 1]
    /\ UNCHANGED <<wvars, svars, tcp, dev, session>>

\* main_loop takes a response and puts it on the queue of every client
MainLoopForward ==
    /\ daemon.main = "loop"
    /\ daemon.running
    /\ daemon.network_queue > 0
    /\ daemon' = [daemon EXCEPT !.network_queue = @ - 1]
    /\ UNCHANGED <<wvars, svars, tcp, dev, session>>

\* a client sends 'daemon.stop': self.server.stop()
DaemonStop ==
    /\ daemon.clients \ daemon.quitting # {}
    /\ daemon.running
    /\ daemon' = [daemon EXCEPT !.running = FALSE]
    /\ UNCHANGED <<wvars, svars, tcp, dev, session>>

\* main_loop finds is_running() false: "Daemon exiting"
MainLoopExit ==
    /\ daemon.main = "loop"
    /\ ~daemon.running
    /\ daemon' = [daemon EXCEPT !.main = "done"]
    /\ UNCHANGED <<wvars, svars, tcp, dev, session>>

NextDaemon ==
    \/ MainLoopStart
    \/ ListenStart
    \/ Accept
    \/ AcceptTimeout
    \/ ListenStopped
    \/ ListenExit
    \/ ClientQuit
    \/ RemoveClient
    \/ NetworkResponse
    \/ MainLoopForward
    \/ DaemonStop
    \/ MainLoopExit

SpecDaemon == Init /\ [][NextDaemon]_vars

\* every thread of the daemon gets to run, and accept returns within its
\* timeout when no connection comes
SpecDaemonFair ==
    /\ SpecDaemon
    /\ WF_vars(MainLoopStart) /\ WF_vars(ListenStart)
    /\ WF_vars(AcceptTimeout) /\ WF_vars(ListenStopped)
    /\ WF_vars(ListenExit) /\ WF_vars(MainLoopExit)

----------------------------------------------------------------------------
(* The waiting lists of the TCP interface: a thread that calls subscribe    *)
(* and get_history, the server, and listen_thread.  Here tcp holds the      *)
(* interface with its two lists; send() is taken as one step.               *)

\* Bound on the requests sent in one session.
MaxRequests == 3

\* TCPInterface.__init__, the session started: answered are the requests the
\* server has answered, inbox its answers that recv has not returned yet,
\* handled the answers listen_thread is done with, call the position of the
\* sending thread
InitWaiting ==
    tcp = [message_id |-> 0, messages |-> EmptyDict,
           addresses_waiting_for_status |-> <<>>,
           addresses_waiting_for_history |-> <<>>,
           is_up_to_date |-> FALSE, up_to_date_event |-> FALSE,
           answered |-> {}, inbox |-> <<>>, handled |-> {},
           todo |-> addresses \o change_addresses,
           call |-> [pc |-> "idle", method |-> "None", addr |-> 0]]

\* a wallet with two receiving addresses, and an interface whose session has
\* just been started
InitWait ==
    /\ \E sd \in Seeds :
          WalletIs(create_new_address2(
                       create_new_address2(
                           new_seed(NewWallet(NoFile), sd, ""), FALSE, <<>>),
                       FALSE, <<>>))
    /\ last = [op |-> "create", password |-> ""]
    /\ InitSPV
    /\ InitWaiting
    /\ InitDev
    /\ InitDaemon
    /\ InitSession

\* self.send(method, [addr]): the first line of subscribe and of get_history
sent_request(i, method, addr) ==
    [i EXCEPT !.messages = Put(@, i.message_id,
                               [method |-> method, params |-> <<addr>>]),
              !.message_id = @ + 1,
              !.call = [pc |-> "append", method |-> method, addr |-> addr]]

\* the second line of subscribe and of get_history: the address is recorded
recorded(i) ==
    IF i.call.method = "address.subscribe"
    THEN [i EXCEPT !.addresses_waiting_for_status = Append(@, i.call.addr),
                   !.call.pc = "idle"]
    ELSE [i EXCEPT !.addresses_waiting_for_history = Append(@, i.call.addr),
                   !.call.pc = "idle"]

\* listen_thread for the answer to the request id: the address leaves its
\* list if it is there, and is_up_to_date says whether both lists are empty
answer_handled(i, id) ==
    LET method == i.messages[id].method
        addr == i.messages[id].params[1]
        j == IF method = "address.subscribe"
             THEN [i EXCEPT !.addresses_waiting_for_status = Remove(@, addr)]
             ELSE [i EXCEPT !.addresses_waiting_for_history = Remove(@, addr)]
        waiting == j.addresses_waiting_for_status # <<>>
                   \/ j.addresses_waiting_for_history # <<>>
    IN [j EXCEPT !.is_up_to_date = ~waiting,
                 !.up_to_date_event = @ \/ ~waiting,
                 !.handled = @ \cup {id}]

\* start_session: subscribe(address) for the next of wallet.all_addresses()
SubscribeSend ==
    /\ tcp.call.pc = "idle"
    /\ tcp.todo # <<>>
    /\ tcp.message_id < MaxRequests
    /\ tcp' = [sent_request(tcp, "address.subscribe", Head(tcp.todo))
                  EXCEPT !.todo = Tail(@)]
    /\ UNCHANGED <<wvars, svars, dev, daemon, session>>

\* get_history(addr) for an owned address
GetHistorySend ==
    /\ tcp.call.pc = "idle"
    /\ tcp.message_id < MaxRequests
    /\ \E addr \in Range(addresses \o change_addresses) :
          tcp' = sent_request(tcp, "address.get_history", addr)
    /\ UNCHANGED <<wvars, svars, dev, daemon, session>>

\* subscribe and get_history go on after send() has returned
WaitingAppend ==
    /\ tcp.call.pc = "append"
    /\ tcp' = recorded(tcp)
    /\ UNCHANGED <<wvars, svars, dev, daemon, session>>

\* the server answers a request
ServerAnswer ==
    /\ \E id \in DOMAIN tcp.messages \ tcp.answered :
          tcp' = [tcp EXCEPT !.answered = @ \cup {id},
                             !.inbox = Append(@, id)]
    /\ UNCHANGED <<wvars, svars, dev, daemon, session>>

\* listen_thread reads the next answer
ListenAnswer ==
    /\ tcp.inbox # <<>>
    /\ tcp' = [answer_handled(tcp, Head(tcp.inbox)) EXCEPT !.inbox = Tail(@)]
    /\ UNCHANGED <<wvars, svars, dev, daemon, session>>

NextWait ==
    \/ SubscribeSend
    \/ GetHistorySend
    \/ WaitingAppend
    \/ ServerAnswer
    \/ ListenAnswer

SpecWait == InitWait /\ [][NextWait]_vars

----------------------------------------------------------------------------
(* The poll thread, loop_interfaces_thread and the server's sessions *)

\* a wallet that was created and synchronized while the server knew of no
\* transaction
SyncedWallet(sd) ==
    CHOOSE w \in {r.w : r \in synchronize(
                     create_new_address2(new_seed(NewWallet(NoFile), sd, ""),
                                         FALSE, <<>>))} :
        \A a \in DOMAIN w.history : w.history[a] = <<>>

\* a wallet that was created and synchronized, an interface without a
\* session, and a server that knows of no transaction
InitPoll ==
    /\ \E sd \in Seeds : WalletIs(SyncedWallet(sd))
    /\ last = [op |-> "create", password |-> ""]
    /\ InitSPV
    /\ InitTCP
    /\ InitDev
    /\ InitDaemon
    /\ InitSession

\* the server learns of transactions, or a block changes their place
ServerChange ==
    /\ ~session.stable
    /\ \E a \in Watched : \E h \in StoreChoices(a) :
          /\ h # session.store[a]
          /\ session' = [session EXCEPT !.store[a] = h]
    /\ UNCHANGED <<wvars, svars, tcp, dev, daemon>>

\* from now on the server's data stays as it is
ServerSettles ==
    /\ ~session.stable
    /\ session' = [session EXCEPT !.stable = TRUE]
    /\ UNCHANGED <<wvars, svars, tcp, dev, daemon>>

\* time passes on the server: one more period of clean_session_thread
Tick ==
    /\ \E k \in DOMAIN session.age : session.age[k] <= SessionTimeout
    /\ session' = [session EXCEPT !.age =
                          [k \in DOMAIN @ |->
                              IF @[k] <= SessionTimeout THEN @[k] + 1
                              ELSE @[k]]]
    /\ UNCHANGED <<wvars, svars, tcp, dev, daemon>>

\* clean_session_thread: "lost session"
CleanSession ==
    /\ \E k \in DOMAIN session.age :
          /\ session.age[k] > SessionTimeout
          /\ session' = [session EXCEPT !.sessions = Pop(@, k),
                                             !.age = Pop(@, k)]
    /\ UNCHANGED <<wvars, svars, tcp, dev, daemon>>

\* loop_interfaces_thread: start_session registers wallet.all_addresses()
\* under a new session id and starts the poll thread
StartNative ==
    /\ session.pc = "start"
    /\ SessionIds \ DOMAIN session.sessions # {}
    /\ LET free == SessionIds \ DOMAIN session.sessions
           k == CHOOSE x \in free : \A y \in free : x <= y
       IN session' = [new_session(session, k, Range(all_addresses(W)))
                              EXCEPT !.session_id = k, !.is_connected = TRUE,
                                     !.pc = "poll"]
    /\ UNCHANGED <<wvars, svars, tcp, dev, daemon>>

\* start_session raises socket.error: "socket error", sleep, new_interface
StartNativeError ==
    /\ session.pc = "start"
    /\ session' = NewNativeInterface(session)
    /\ UNCHANGED <<wvars, svars, tcp, dev, daemon>>

\* poll and what comes of it, ret being the answer and keys its addresses:
\* without the session the poll raises and the thread ends; without news the
\* round is over; otherwise the reported addresses are gone through
poll_step(w, s0, ret, keys) ==
    LET found == session_found(s0, s0.session_id)
        height == IF found THEN 2 ELSE -1
        s == polled(s0, s0.session_id)
    IN IF session_lost(height)
       THEN [w |-> w,
             s |-> [s EXCEPT !.is_connected = FALSE,
                             !.disconnected_event = TRUE,
                             !.pc = "ended"]]
       ELSE [w |-> [w EXCEPT !.blocks = height],
             s |-> [s EXCEPT
                      !.is_up_to_date = (keys = <<>>),
                      !.pc = IF keys = <<>> THEN "poll" ELSE "retrieve",
                      !.changed = to_retrieve(w,
                          [i \in 1..Len(keys) |->
                              [addr |-> keys[i], blk_hash |-> ret[keys[i]]]])]]

\* poll_thread: update_wallet polls
Poll ==
    /\ session.pc = "poll"
    /\ session.is_connected
    /\ \E ret \in {poll_ret(session, session.session_id)} :
       \E keys \in {SortedKeys(DOMAIN ret)} :
       \E r \in {poll_step(W, session, ret, keys)} :
          /\ SetWallet(r.w)
          /\ session' = r.s
    /\ last' = last
    /\ UNCHANGED <<svars, tcp, dev, daemon>>

\* the next reported address whose status is new: its history is asked for
Retrieve ==
    /\ session.pc = "retrieve"
    /\ session.changed # <<>>
    /\ \E w \in {receive_status(W, session, Head(session.changed).addr,
                                 Head(session.changed).blk_hash)} :
          /\ SetWallet(w)
          /\ session' = [session EXCEPT !.changed = to_retrieve(w, Tail(@))]
    /\ last' = last
    /\ UNCHANGED <<svars, tcp, dev, daemon>>

\* every reported address is done: synchronize, save, and poll again
EndRound ==
    /\ session.pc = "retrieve"
    /\ session.changed = <<>>
    /\ \E w \in {save(r.w) : r \in synchronized(W, session)} : SetWallet(w)
    /\ last' = last
    /\ session' = [session EXCEPT !.pc = "poll"]
    /\ UNCHANGED <<svars, tcp, dev, daemon>>

\* loop_interfaces_thread: disconnected_event is set; "Disconnected", and
\* wallet.interface = new_interface(wallet)
WakeNative ==
    /\ session.pc = "ended"
    /\ session.disconnected_event
    /\ session' = NewNativeInterface(session)
    /\ UNCHANGED <<wvars, svars, tcp, dev, daemon>>

NextPoll ==
    \/ ServerChange
    \/ ServerSettles
    \/ Tick
    \/ CleanSession
    \/ StartNative
    \/ StartNativeError
    \/ Poll
    \/ Retrieve
    \/ EndRound
    \/ WakeNative

SpecPoll == InitPoll /\ [][NextPoll]_vars

\* what EndRound does to the poll thread: the round is over
RoundOver ==
    /\ session.pc = "retrieve"
    /\ session.changed = <<>>
    /\ session' = [session EXCEPT !.pc = "poll"]

\* the client's threads run, start_session gets through in the end, and the
\* server's clock and clean_session_thread go on.  EndRound is the one action
\* that takes a RoundOver step and it can be taken whenever the round has
\* no address left, so the fairness of EndRound is stated on RoundOver.
SpecPollFair ==
    /\ SpecPoll
    /\ WF_vars(StartNative) /\ WF_vars(Poll) /\ WF_vars(Retrieve)
    /\ WF_session(RoundOver) /\ WF_vars(WakeNative)
    /\ WF_vars(Tick) /\ WF_vars(CleanSession)

\* the rounds of a session that is polled in time (every poll_interval, 5 s,
\* against the 60 s of clean_session_thread) and so is never dropped
NextRounds ==
    \/ ServerChange
    \/ ServerSettles
    \/ StartNative
    \/ StartNativeError
    \/ Poll
    \/ Retrieve
    \/ EndRound

SpecRounds == InitPoll /\ [][NextRounds]_vars

SpecRoundsFair ==
    /\ SpecRounds
    /\ WF_vars(StartNative) /\ WF_vars(Poll) /\ WF_vars(Retrieve)
    /\ WF_session(RoundOver)

----------------------------------------------------------------------------
(* The gap limit *)

\* the last change address
LastChange == change_addresses[Len(change_addresses)]

\* the number of receiving addresses with empty history that end the list,
\* counted back from position n
RECURSIVE TrailingEmpty(_, _)
TrailingEmpty(w, n) ==
    IF n = 0 \/ Used(w, w.addresses[n]) THEN 0
    ELSE 1 + TrailingEmpty(w, n - 1)

HasUsedReceiving == \E i \in 1..Len(addresses) : Used(W, addresses[i])

\* C1 as stated: after synchronize() returns, the last gap_limit receiving
\* addresses have empty history and the change list is empty or its last
\* address has been used.
C1_AsStated ==
    last.op = "synchronize" =>
        /\ LastAllEmpty(W, GapLimit)
        /\ (change_addresses = <<>> \/ Used(W, LastChange))

\* C1: after synchronize() returns, the last gap_limit receiving addresses
\* have empty history, and the change list is not empty and its last address
\* has empty history.
C1_Synchronized ==
    last.op = "synchronize" =>
        /\ LastAllEmpty(W, GapLimit)
        /\ change_addresses # <<>>
        /\ EmptyList(W, LastChange)

\* C1: synchronize() has returned after finding used addresses on both chains
C1_Witness ==
    /\ last.op = "synchronize"
    /\ last.ok
    /\ Len(addresses) > GapLimit
    /\ Len(change_addresses) > 1

\* C2 as stated: in every state at most gap_limit - 1 empty receiving
\* addresses follow the last receiving address with history.
C2_AsStated ==
    HasUsedReceiving => TrailingEmpty(W, Len(addresses)) <= GapLimit - 1

\* C2: every synchronize(), get_new_address() or update() that appends a
\* receiving address leaves at most gap_limit empty receiving addresses at
\* the end of the list.
C2_GapAtCreation ==
    [][(/\ last'.op \in {"synchronize", "get_new_address", "update"}
        /\ Len(addresses') > Len(addresses))
       => TrailingEmpty(W', Len(addresses')) <= GapLimit]_vars

\* C2: get_new_address() has appended the gap_limit-th empty address after a
\* used one
C2_Witness ==
    /\ last.op = "get_new_address"
    /\ last.ok
    /\ HasUsedReceiving
    /\ TrailingEmpty(W, Len(addresses)) = GapLimit

\* C7: get_new_address() refuses, appending nothing, exactly when the list
\* holds gap_limit addresses or more and each of the last gap_limit has empty
\* history; otherwise it appends one receiving address, the one derived at
\* the next index, and returns it.
C7_Refusal ==
    [][last'.op = "get_new_address" =>
          /\ ~last'.ok <=> LastAllEmpty(W, GapLimit)
          /\ ~last'.ok => addresses' = addresses
          /\ last'.ok =>
                /\ addresses' =
                      Append(addresses, Derive(Len(addresses), FALSE))
                /\ last'.addr = Derive(Len(addresses), FALSE)
          /\ change_addresses' = change_addresses]_vars

\* C7: get_new_address() has refused in a wallet that holds a used address
C7_Witness ==
    /\ last.op = "get_new_address"
    /\ ~last.ok
    /\ HasUsedReceiving

\* a wallet in which no address is used and synchronize() has not run
Fresh ==
    /\ change_addresses = <<>>
    /\ \A i \in 1..Len(addresses) : EmptyList(W, addresses[i])

----------------------------------------------------------------------------
(* The address lists *)

\* every address stands at the position of its derivation index, and the
\* lookup of get_private_key2 finds that index
Dense ==
    /\ \A i \in 1..Len(addresses) :
          /\ addresses[i] = Derive(i - 1, FALSE)
          /\ get_private_key2(W, addresses[i]) =
                [n |-> i - 1, for_change |-> FALSE, raised |-> FALSE]
    /\ \A i \in 1..Len(change_addresses) :
          /\ change_addresses[i] = Derive(i - 1, TRUE)
          /\ get_private_key2(W, change_addresses[i]) =
                [n |-> i - 1, for_change |-> TRUE, raised |-> FALSE]

\* C9: both lists are dense prefixes of their derivation sequences, the
\* position lookup of get_private_key2 yields the derivation index, and no
\* operation on a wallet removes or reorders an address.
C9_DensePrefix ==
    [][/\ Dense'
       /\ last'.op # "init" =>
             /\ IsPrefix(addresses, addresses')
             /\ IsPrefix(change_addresses, change_addresses')]_vars

\* C9: both lists have grown
C9_Witness ==
    /\ Len(addresses) > GapLimit
    /\ Len(change_addresses) > 1

----------------------------------------------------------------------------
(* Balance and the transaction table *)

\* the sum of the values of the entries whose height is (or is not) zero
RECURSIVE SumValues(_, _)
SumValues(entries, confirmed) ==
    IF entries = <<>> THEN 0
    ELSE (IF (Head(entries).height # 0) = confirmed
          THEN Head(entries).value ELSE 0)
         + SumValues(Tail(entries), confirmed)

\* C5 as stated: get_balance() returns the sums of the confirmed and of the
\* unconfirmed values over the histories of every owned address, receiving
\* and change.
C5_AsStated ==
    get_balance(W) =
        <<SumValues(EntriesOf(W, all_addresses(W)), TRUE),
          SumValues(EntriesOf(W, all_addresses(W)), FALSE)>>

\* C10 as stated: after read(), update() and synchronize() every tx_hash of
\* the history of an owned address is a key of tx_history.
C10_AsStated ==
    (\/ last.op \in {"read", "synchronize"}
     \/ (last.op = "update" /\ ~last.raised))
    => \A i \in 1..Len(EntriesOf(W, all_addresses(W))) :
          EntriesOf(W, all_addresses(W))[i].tx_hash \in DOMAIN tx_history

----------------------------------------------------------------------------
(* Payments *)

\* C6: after a successful mktx the values of the selected inputs less the
\* amounts of the outputs (recipient and change) equal the fee of the input
\* selection, and no output has a negative amount.
C6_Conservation ==
    (last.op = "mktx" /\ last.ok) =>
        /\ SumSeq([i \in 1..Len(last.inputs) |-> last.inputs[i].value])
             - SumSeq([i \in 1..Len(last.outputs) |-> last.outputs[i].amount])
           = last.fee
        /\ \A i \in 1..Len(last.outputs) : last.outputs[i].amount >= 0

\* C6: mktx has succeeded with two inputs and a change output
C6_Witness ==
    /\ last.op = "mktx"
    /\ last.ok
    /\ Len(last.inputs) = 2
    /\ Len(last.outputs) = 2

----------------------------------------------------------------------------
(* The verifier *)

\* the stamp of tx is new or has changed in this step
Stamped(tx) ==
    /\ tx \in DOMAIN verified_tx'
    /\ (tx \in DOMAIN verified_tx => verified_tx'[tx] # verified_tx[tx])

\* C3: a verified stamp appears or changes only when run() handles a
\* get_merkle response without error for that transaction, the header at the
\* response's block_height is stored locally, the branch folded from the txid
\* with pos equals that header's merkle_root, and the stamp is (block_height,
\* the header's timestamp, pos).
C3_OnlyVerified ==
    [][\A tx \in TxHashes : Stamped(tx) =>
          /\ queue # <<>>
          /\ ~Head(queue).error
          /\ Head(queue).params[1] = tx
          /\ Head(queue).result.block_height \in DOMAIN headers
          /\ hash_merkle_root(Head(queue).result.merkle, tx,
                              Head(queue).result.pos)
               = headers[Head(queue).result.block_height].merkle_root
          /\ verified_tx'[tx] =
               [height |-> Head(queue).result.block_height,
                timestamp |->
                    headers[Head(queue).result.block_height].timestamp,
                pos |-> Head(queue).result.pos]]_vars

\* C3: a transaction has been verified through a branch that is not empty
C3_Witness ==
    \E tx \in DOMAIN verified_tx :
        /\ tx \in DOMAIN merkle_roots
        /\ merkle_roots[tx] # tx
        /\ verified_tx[tx].pos > 0

\* C4 as stated: after undo_verifications(h) no transaction stamped at a
\* height >= h is verified or has a cached merkle root.
C4_AsStated ==
    spv_last.op = "undo_verifications" =>
        \A tx \in DOMAIN verified_tx :
            verified_tx[tx].height < spv_last.height

----------------------------------------------------------------------------
(* The seed, the password and the wallet file *)

\* whether a string is the encryption of something
Ciphertext(s) == s.keys # <<>>

\* C11 as stated: in every state reached through creation and password
\* changes, use_encryption is true if and only if the stored seed is
\* ciphertext, in the wallet and in the file it saved.
C11_AsStated ==
    /\ use_encryption <=> Ciphertext(seed)
    /\ (file.exists /\ file.content = "record")
          => (file.use_encryption <=> Ciphertext(file.seed))

\* C12 as stated: after the create command, use_encryption is true and the
\* seed is stored encrypted exactly when a password was typed.
C12_AsStated ==
    last.op = "create"
       => /\ use_encryption <=> last.password # ""
          /\ Ciphertext(seed) <=> last.password # ""

C14_AsStated ==
    [][last'.op = "crash" => file' \in {file, save(W).file}]_vars

\* C15 as stated: loading a file that save() wrote yields the wallet that
\* was saved, field by field: saving it again would write the same file.
C15_AsStated ==
    (last.op = "read" /\ last.ok /\ file.missing = {})
       => save(W).file = file

\* C16 as stated: read() loads a wallet only from a record that lacks no
\* field and carries the supported seed version; any other is rejected.
C16_AsStated ==
    (last.op = "read" /\ last.ok)
       => /\ file.missing = {}
          /\ file.seed_version = SeedVersion
          /\ master_public_key # "None"

----------------------------------------------------------------------------
(* Payments: lack of funds, and the change *)

\* the total value of the candidate coins of choose_tx_inputs
TotalCoins(w) ==
    LET cs == CoinsOf(w, all_addresses(w))
    IN SumSeq([i \in 1..Len(cs) |-> cs[i].item.value])

\* the fee of a payment: the fixed fee, or else the wallet's fee
FeeAsked(w, fx) == IF fx.given THEN fx.fee ELSE w.fee.whole

\* mktx with these arguments fails for lack of funds and leaves the wallet,
\* its lists, contacts, labels and file, as it was
Insufficient(to, amount, label, pwok, fx, h) ==
    LET r == mktx(W, to, amount, label, pwok, fx, h)
    IN (TotalCoins(W) < amount + FeeAsked(W, fx))
          => /\ ~r.ok
             /\ r.msg = "Not enough funds"
             /\ r.w = W

\* C17 as stated: whenever the candidate coins total less than amount + fee,
\* mktx returns the insufficient-funds failure and changes nothing.
C17_AsStated ==
    (master_public_key # "None" /\ self_fee.frac = 0) =>
       \A to \in Recipients \cup Malformed, amount \in Amounts,
          label \in Labels, pwok \in BOOLEAN, fx \in FixedFees,
          h \in ServerHistories(next_address(W, TRUE)) :
          Insufficient(to, amount, label, pwok, fx, h)

\* C17: for an address that is_valid accepts, whenever the
\* candidate coins total less than amount + fee, mktx returns the
\* insufficient-funds failure and adds no address, contact or label and
\* does not save.
C17_ValidAddress ==
    (master_public_key # "None" /\ self_fee.frac = 0) =>
       \A to \in Recipients, amount \in Amounts,
          label \in Labels, pwok \in BOOLEAN, fx \in FixedFees,
          h \in ServerHistories(next_address(W, TRUE)) :
          Insufficient(to, amount, label, pwok, fx, h)

\* C17: mktx has just failed for lack of funds on a wallet that holds coins
C17_Witness ==
    /\ last.op = "mktx"
    /\ last.msg = "Not enough funds"
    /\ TotalCoins(W) > 0
    /\ TotalCoins(W) < last.amount + last.fee

\* the change addresses an earlier mktx has assigned an output to that no
\* history shows yet: the change address of the payment just made
Pending ==
    IF last.op = "mktx" /\ last.ok /\ Len(last.outputs) = 2
    THEN {last.outputs[2].addr} ELSE {}

\* the positions of the change addresses with empty history and no pending
\* output
FreeChange ==
    {i \in 1..Len(change_addresses) :
        /\ ~Used(W, change_addresses[i])
        /\ change_addresses[i] \notin Pending}

\* C18 as stated: a successful mktx with change (inputs - amount - fee > 0)
\* appends exactly one change output, paid to the first change address with
\* empty history and no pending output of an earlier mktx; a new change
\* address is derived only when there is no such address.
C18_AsStated ==
    [][(/\ last'.op = "mktx"
        /\ last'.ok
        /\ SumSeq([i \in 1..Len(last'.inputs) |-> last'.inputs[i].value])
              - last'.amount - last'.fee > 0)
       => /\ Len(last'.outputs) = 2
          /\ IF FreeChange # {}
             THEN /\ change_addresses' = change_addresses
                  /\ last'.outputs[2].addr =
                        change_addresses[CHOOSE i \in FreeChange :
                                            \A j \in FreeChange : i <= j]
             ELSE change_addresses' =
                     Append(change_addresses, last'.outputs[2].addr)]_vars

----------------------------------------------------------------------------
(* The status of an address *)

\* C19: in update a report for an address whose status equals the stored
\* status[addr] calls no retrieve_history for it and leaves history[addr]
\* as it is, whatever the server holds; so of two deliveries of the same
\* status in a row the second fetches nothing.
C19_NoRefetch ==
    master_public_key # "None" =>
       \A changed \in PollSets(W) : \A srv \in ServerAnswers(changed) :
          \A r \in update(W, 2, changed, srv) : \A a \in changed :
             /\ StatusOf(srv[a]) = status_get(W, a)
                   => /\ a \notin r.retrieved
                      /\ r.w.history[a] = history[a]
             /\ \A srv2 \in ServerAnswers({a}) :
                   StatusOf(srv2[a]) = StatusOf(srv[a])
                      => \A r2 \in update(r.w, 2, {a}, srv2) :
                            /\ a \notin r2.retrieved
                            /\ r2.w.history[a] = r.w.history[a]

\* C19: update has stored the status "mempool" and the history that came with
\* it, and the server holds another history of the same status
C19_Witness ==
    /\ last.op = "update"
    /\ last.ok
    /\ \E a \in Range(addresses) : \E h \in ServerHistories(a) :
          /\ status_get(W, a) = "mempool"
          /\ StatusOf(h) = "mempool"
          /\ h # history[a]

\* C20 as stated: the status is a function of the whole history, so that
\* whenever the server's history of an owned address differs from the one
\* the wallet holds (an entry added, removed or newly confirmed), the status
\* the server reports differs from the status of the held history, and the
\* update told of it stores another status than the one stored before.
C20_AsStated ==
    master_public_key # "None" =>
       \A a \in Range(all_addresses(W)) : \A h \in ServerHistories(a) :
          h # history[a]
             => /\ StatusOf(h) # StatusOf(history[a])
                /\ \A r \in update(W, 2, {a}, [x \in {a} |-> h]) :
                      status_get(r.w, a) # status_get(W, a)

----------------------------------------------------------------------------
(* The Merkle fold *)

\* the fold of the first i levels: from the txid, level by level, the sibling
\* goes in front when that bit of pos is 1 and behind otherwise
RECURSIVE StatedFold(_, _, _, _)
StatedFold(branch, txid, pos, i) ==
    IF i = 0 THEN hash_decode(txid)
    ELSE LET acc == StatedFold(branch, txid, pos, i - 1)
             sibling == hash_decode(branch[i])
         IN IF (pos \div (2 ^ (i - 1))) % 2 = 1
            THEN Hash(sibling, acc)
            ELSE Hash(acc, sibling)

\* run() takes the answer at the head of the queue in this step
Handles ==
    /\ queue # <<>>
    /\ queue' = Tail(queue)
    /\ spv_last'.op = "run"

\* C25: hash_merkle_root(branch, txid, pos) is the fold that starts from the
\* txid and at level i puts the sibling in front of the accumulator when bit
\* i of pos is 1 and behind it otherwise; for pos = 2 and siblings [S0, S1]
\* it is hash256(S1 || hash256(H0 || S0)); run() stamps the transaction
\* exactly when the stored header holds that root, and it leaves the stamps
\* alone when the header holds the root of the branch with another S1.
C25_Fold ==
    [][Handles /\ ~Head(queue).error =>
          LET r == Head(queue).result
              txid == Head(queue).params[1]
              folded == hash_encode(
                           StatedFold(r.merkle, txid, r.pos, Len(r.merkle)))
              rejected == /\ verified_tx' = verified_tx
                          /\ merkle_roots' = merkle_roots
          IN /\ hash_merkle_root(r.merkle, txid, r.pos) = folded
             /\ r.pos = 2 =>
                   folded = hash_encode(
                               Hash(hash_decode(r.merkle[2]),
                                    Hash(hash_decode(txid),
                                         hash_decode(r.merkle[1]))))
             /\ IF /\ r.block_height \in DOMAIN headers
                   /\ headers[r.block_height].merkle_root = folded
                THEN /\ txid \in DOMAIN verified_tx'
                     /\ verified_tx'[txid].pos = r.pos
                     /\ merkle_roots'[txid] = folded
                ELSE rejected
             /\ \A s1 \in TwoLevelSiblings \ {r.merkle[2]} :
                   /\ r.pos = 2
                   /\ r.block_height \in DOMAIN headers
                   /\ headers[r.block_height].merkle_root
                         = hash_merkle_root(<<r.merkle[1], s1>>, txid, 2)
                   => rejected]_vars

\* C25: run() has verified a transaction at position 2 of its block
C25_Witness ==
    /\ spv_last.op = "run"
    /\ \E txid \in DOMAIN verified_tx : verified_tx[txid].pos = 2

\* C25: run() has left a transaction unverified whose answer placed it at
\* position 2 under a header holding the root of the branch with another S1
C25_Rejected ==
    /\ spv_last.op = "run"
    /\ \E txid \in Range(requested_merkle) :
          /\ txid \in DOMAIN unverified_tx
          /\ txid \notin unanswered
          /\ \A i \in 1..Len(queue) : queue[i].params[1] # txid
          /\ \E h \in DOMAIN headers, s0 \in TwoLevelSiblings,
                s1 \in TwoLevelSiblings :
                headers[h].merkle_root = hash_merkle_root(<<s0, s1>>, txid, 2)

----------------------------------------------------------------------------
(* The verifier thread's requests *)

\* tx is stored without a verified stamp at a height the local chain reaches
Due(tx) ==
    /\ tx \in DOMAIN unverified_tx
    /\ tx \notin DOMAIN verified_tx
    /\ unverified_tx[tx] <= get_local_height(S)

\* a get_merkle request for tx was sent by the running thread
Requested(tx) == tx \in Range(requested_merkle)

\* C26: for every stored transaction that lacks a verified stamp and whose
\* reported height is at most the local chain height the verifier thread
\* eventually sends a get_merkle request, unless the transaction ceases to be
\* such a one before; and no pass sends a request for a transaction whose
\* reported height exceeds the local height.
C26_Requests ==
    /\ \A tx \in TxHashes : Due(tx) ~> (Requested(tx) \/ ~Due(tx))
    /\ [][\A tx \in unanswered' \ unanswered :
             /\ tx \in DOMAIN unverified_tx
             /\ unverified_tx[tx] <= get_local_height(S)
             /\ Requested(tx)']_vars

\* C26: a pass of the for loop has sent a request for a transaction that
\* lacks a stamp at a height the local chain reaches
C26_Witness ==
    /\ spv_last.op = "run"
    /\ spv_last.verdict = "request"
    /\ \E tx \in unanswered : Due(tx)

\* C26: a pass of the for loop has sent nothing for a transaction reported
\* above the local height
C26_NotYet ==
    /\ spv_last.op = "run"
    /\ spv_last.verdict = "request"
    /\ \E tx \in DOMAIN unverified_tx :
          /\ unverified_tx[tx] > get_local_height(S)
          /\ ~Requested(tx)

\* run() has just found that the branch sent for tx folds to another root
\* than the stored header's
Failed(tx) ==
    /\ spv_last.op = "run"
    /\ spv_last.verdict = "mismatch"
    /\ spv_last.tx = tx

\* C27 as stated: when Merkle verification of a transaction fails, the
\* transaction stays unverified and the verifier requests its branch again
\* on a later iteration.
C27_AsStated ==
    \A tx \in TxHashes :
        /\ [](Failed(tx) => tx \notin DOMAIN verified_tx)
        /\ Failed(tx) ~> (tx \in unanswered)

\* undo_verifications has just been called for a reorganization that
\* reaches the height tx is stamped at
Undone(tx) ==
    /\ spv_last.op = "undo_verifications"
    /\ tx \in spv_last.stale

\* C28 as stated: after undo_verifications was called for a reorganization
\* that reaches a transaction's stamp, the running verifier thread requests
\* a Merkle branch for that transaction again.
C28_AsStated ==
    \A tx \in TxHashes : Undone(tx) ~> (tx \in unanswered)

----------------------------------------------------------------------------
(* The requests of a session *)

\* C22 as stated: every request sent in a session carries an id that no
\* other request of the session carries, also when send() runs in several
\* threads at once, and the table the responses are dispatched from holds
\* under each id the method and params of the request that carried it.
C22_AsStated ==
    /\ \A r1 \in tcp.i.sent, r2 \in tcp.i.sent : r1.id = r2.id => r1 = r2
    /\ \A r \in tcp.i.sent :
          /\ r.id \in DOMAIN tcp.i.messages
          /\ tcp.i.messages[r.id] = [method |-> r.method, params |-> r.params]

\* listen_thread takes the message at the head of the inbox in this step
Handled ==
    /\ tcp.i.is_connected
    /\ tcp.i.inbox # <<>>
    /\ tcp'.i.inbox = Tail(tcp.i.inbox)
    /\ tcp'.loop = tcp.loop
    /\ tcp'.gui = tcp.gui

\* C23 as stated: a server notification whose id is null and whose method is
\* address.subscribe is processed as a status update for its address: it
\* reaches the wallet's status callback.
C23_AsStated ==
    [][Handled /\ Head(tcp.i.inbox).id = NoId
              /\ Head(tcp.i.inbox).method = "address.subscribe"
          => /\ tcp'.last.op = "receive_status_callback"
             /\ tcp'.last.addr = Head(tcp.i.inbox).params[1]]_vars

\* C23: a server message reaches the wallet's status callback exactly when
\* its id is not null and the session's request table holds an
\* address.subscribe entry under that id, and then with that entry's address
\* and the message's result; a message whose id is null is discarded and
\* changes nothing.
C23_ById ==
    [][Handled =>
          LET m == Head(tcp.i.inbox)
              subscribed == /\ m.id # NoId
                            /\ m.id \in DOMAIN tcp.i.messages
                            /\ tcp.i.messages[m.id].method = "address.subscribe"
          IN /\ subscribed <=> tcp'.last.op = "receive_status_callback"
             /\ subscribed =>
                   /\ tcp'.last.addr = tcp.i.messages[m.id].params[1]
                   /\ tcp'.last.result = m.result
             /\ m.id = NoId =>
                   /\ tcp'.last.op = "error: message without ID"
                   /\ tcp'.i = [tcp.i EXCEPT !.inbox = Tail(@)]]_vars

\* C23: a message with the id of the subscription of an owned address has
\* reached the status callback
C23_Witness ==
    /\ tcp.last.op = "receive_status_callback"
    /\ tcp.last.addr \in Range(all_addresses(W))
    /\ \E r \in tcp.i.sent :
          /\ r.method = "address.subscribe"
          /\ r.params = <<tcp.last.addr>>

\* C23: a notification without id has been discarded
C23_Discarded ==
    /\ tcp.last.op = "error: message without ID"
    /\ tcp.i.is_connected

\* a thread is inside send_tx, past its send(), waiting for tx_event
Waiting == tcp.gui.pc \in {"wait", "set"}

\* C24 as stated: a caller blocked in send_tx is eventually released, by the
\* response or, when the response never arrives, by a timeout.
C24_AsStated == Waiting ~> ~Waiting

----------------------------------------------------------------------------
(* Reconnection *)

\* the listen thread of the wallet's interface has ended
Disconnected == tcp.i.disconnected_event

\* a session is under way on an interface that has not been disconnected
UnderWay ==
    /\ ~tcp.i.disconnected_event
    /\ tcp.loop.pc # "start"

\* the session has sent the client version, subscribed to numblocks and
\* subscribed to every address of the wallet
FullySent ==
    /\ \E r \in tcp.i.sent : r.method = "client.version"
    /\ \E r \in tcp.i.sent : r.method = "numblocks.subscribe"
    /\ \A a \in Range(all_addresses(W)) :
          \E r \in tcp.i.sent :
             r.method = "address.subscribe" /\ r.params = <<a>>

\* C21: after every disconnect of the wallet's interface
\* loop_interfaces_thread eventually has a session under way on a new
\* interface, however often opening one fails before; a session that is
\* under way gets to the end of start_session unless it breaks first; and a
\* session that got there has sent the client version, subscribed to
\* numblocks and subscribed to every owned address.
C21_Reconnects ==
    /\ Disconnected ~> UnderWay
    /\ UnderWay ~> (tcp.loop.pc = "wait" \/ tcp.loop.pc = "start"
                      \/ Disconnected)
    /\ [](tcp.loop.pc = "wait" => FullySent)

\* C21: a session has started on the interface that replaced a disconnected
\* one
C21_Witness ==
    /\ tcp.last.op = "Disconnected"
    /\ UnderWay

\* C21: a session has started after socket errors and another exception
C21_AfterErrors ==
    /\ tcp.last.op \in {"socket error", "exception"}
    /\ UnderWay

----------------------------------------------------------------------------
(* The device manager's callbacks *)

\* C29: the device manager calls wallet.connected() and
\* wallet.disconnected() only while the calling thread does not hold the
\* manager's lock, whichever of scan_devices, pair_wallet and get_client
\* leads to the call.
C29_AsStated ==
    \A n \in 1..Len(dev.calls) : ~dev.calls[n].locked

\* scan_devices makes its callbacks without the lock
C29_ScanUnlocked ==
    dev.last.op = "scan_devices" => C29_AsStated

----------------------------------------------------------------------------
(* Hot-plugging a paired device *)

\* the step is a scan_devices, or something that happens to the hardware
Scans == dev'.last.op = "scan_devices"
HardwareOrScan == dev'.last.op \in {"plug", "unplug", "scan_devices"}

\* how many times the list holds the client
Count(clients, client) ==
    Cardinality({n \in 1..Len(clients) : clients[n] = client})

\* the operation that made the state called the wallet's callback
Called(m, cb, wallet) ==
    \E n \in 1..Len(m.calls) :
        m.calls[n].cb = cb /\ m.calls[n].wallet = wallet

\* disconnection does not unpair
StaysPaired == HardwareOrScan => dev'.wallets = dev.wallets

\* a scan that finds the device of a paired client gone tells the wallet
\* and closes the client
ToldWhenGone ==
    Scans =>
        \A n \in 1..Len(dev.clients) :
            LET client == dev.clients[n]
                wallet == wallet_by_device_id(dev, client.id)
            IN (client.id \notin Devices(dev) /\ wallet # NoWallet)
                   => /\ Called(dev', "disconnected", wallet)
                      /\ client \notin Range(dev'.clients)

\* the scan made a client for the device on the port it is in now, and
\* paired the wallet with it
Repaired(device_id) ==
    LET wallet == wallet_by_device_id(dev, device_id)
        client == [id |-> device_id, path |-> dev.present[device_id]]
    IN /\ Count(dev'.clients, client) = Count(dev.clients, client) + 1
       /\ dev'.wallets[wallet] = device_id
       /\ Called(dev', "connected", wallet)

\* the scan made no client for the device and called nothing
NotRepaired(device_id) ==
    LET wallet == wallet_by_device_id(dev, device_id)
    IN /\ \A n \in 1..Len(dev'.clients) :
              dev'.clients[n].id = device_id
                  => dev'.clients[n] \in Range(dev.clients)
       /\ ~Called(dev', "connected", wallet)

\* the devices that are plugged in and paired with a wallet
PairedPresent ==
    {d \in Devices(dev) : wallet_by_device_id(dev, d) # NoWallet}

C30_Gone ==
    /\ dev.last.op = "scan_devices"
    /\ Called(dev, "disconnected", "w1")
    /\ "w1" \in DOMAIN dev.wallets

----------------------------------------------------------------------------
(* One client per device *)

\* the clients the manager holds for the device
ClientsOf(m, device_id) == SelectSeq(m.clients, LAMBDA c : c.id = device_id)

\* C31: a client is made only for a device whose (device id, port) pair has
\* none yet: when scan_devices has returned, the client list holds at most
\* one client for each connected device id.
C31_AsStated ==
    dev.last.op = "scan_devices"
        => \A d \in Devices(dev) : Len(ClientsOf(dev, d)) <= 1

----------------------------------------------------------------------------
(* One wallet per device *)

\* the wallets paired with the device id
WalletsOf(m, device_id) ==
    {w \in DOMAIN m.wallets : m.wallets[w] = device_id}

\* C39: no two wallets are ever paired with the same device id, whatever
\* get_client, scan_devices and close_wallet calls the threads make.
C39_AsStated ==
    \A d \in DeviceIds : Cardinality(WalletsOf(dev, d)) <= 1

----------------------------------------------------------------------------
(* The daemon's inactivity timeout *)

\* the listen thread has left its loop with "Daemon timeout"
TimedOut == daemon.listen \in {"timeout", "timed out"}

\* the server is stopped and main_loop has returned
Exited == ~daemon.running /\ daemon.main = "done"

\* the daemon is listening and no client is registered
Unattended ==
    daemon.listen = "accept" /\ daemon.running /\ daemon.clients = {}

\* C33: the daemon stops for inactivity only when no client has been
\* registered for longer than its timeout: the listen thread does not time
\* out while a client is registered; and a daemon left without clients gets
\* a client again or is stopped, main_loop returning, once the timeout has
\* passed.
C33_Inactivity ==
    /\ [](TimedOut => /\ daemon.clients = {}
                      /\ daemon.quiet > DaemonTimeout)
    /\ (Unattended ~> (daemon.clients # {} \/ Exited))
    /\ (TimedOut ~> Exited)

\* The daemon has timed out and main_loop has returned.
C33_Witness ==
    /\ daemon.listen = "timed out"
    /\ Exited
    /\ daemon.quiet = DaemonTimeout + 1

----------------------------------------------------------------------------
(* The balance and the order of arrival *)

\* the history with its entries in another order
Reordered(h) ==
    {[i \in 1..Len(h) |-> h[p[i]]] : p \in Orders(1..Len(h))}

\* the wallet once the histories of the addresses have arrived, one poll
\* for each, in this order
RECURSIVE Received(_, _, _)
Received(w, addrs, srv) ==
    IF addrs = <<>> THEN w
    ELSE Received(apply_changes(w, <<Head(addrs)>>, srv), Tail(addrs), srv)

----------------------------------------------------------------------------
(* A payment refused for its password *)

\* the step is a mktx that returned False, "Wrong password"
WrongPassword == last'.op = "mktx" /\ last'.msg = "Wrong password"

\* C34: a mktx that fails with a wrong password leaves the wallet as it was:
\* no change address is derived, no contact or label is added, nothing is
\* saved.
C34_AsStated ==
    [][WrongPassword => /\ change_addresses' = change_addresses
                        /\ addressbook' = addressbook
                        /\ labels' = labels
                        /\ file' = file
                        /\ W' = W]_vars

\* what does hold: neither a contact nor a label is added
C34_NoContactNoLabel ==
    [][WrongPassword => addressbook' = addressbook /\ labels' = labels]_vars

----------------------------------------------------------------------------
(* The status and the history after update *)

\* the poll thread is between two rounds: update has finished
UpdateFinished == session.pc = "poll"

\* C35: whenever update has finished, the stored status of each address is
\* the blk_hash of the last entry of its stored history, or None when the
\* history is empty, also when the server's data changed between the poll
\* and the request for the history
C35_AsStated ==
    UpdateFinished =>
        \A addr \in DOMAIN status :
            status[addr] = StatusOf(IF addr \in DOMAIN history
                                    THEN history[addr] ELSE <<>>)

----------------------------------------------------------------------------
(* The polling loop once the server's data has settled *)

\* the stored history of every owned address is what the server returns
HistoriesAgree ==
    \A addr \in Range(addresses \o change_addresses) :
        /\ addr \in DOMAIN history
        /\ history[addr] = get_txpoints(session, addr)

\* the last poll returned no changed address
LoopEnded == session.is_up_to_date

\* C36: if the server's data stops changing, then after finitely many rounds
\* of poll and update the polling loop ends and the stored history of every
\* owned address equals the history the server returns for it
C36_AsStated == session.stable ~> (LoopEnded /\ HistoriesAgree)

\* the histories alone
C36_Histories == session.stable ~> HistoriesAgree

\* whenever the round has no address left, EndRound can be taken
RoundCanEnd ==
    (session.pc = "retrieve" /\ session.changed = <<>>)
        => synchronized(W, session) # {}

----------------------------------------------------------------------------
(* A session that the server has dropped *)

\* the poll thread is about to poll for a session the server no longer has
Dropped ==
    /\ session.pc = "poll"
    /\ session.session_id # NoSession
    /\ session.session_id \notin DOMAIN session.sessions

\* the poll thread has ended and the interface is marked disconnected
PollThreadEnded ==
    /\ session.pc = "ended"
    /\ ~session.is_connected
    /\ session.disconnected_event

\* the interface has a session on the server that holds every owned address
Registered ==
    /\ session.pc = "poll"
    /\ session.is_connected
    /\ session.session_id \in DOMAIN session.sessions
    /\ DOMAIN session.sessions[session.session_id]
           = Range(addresses \o change_addresses)

\* the next step of the poll thread for a dropped session ends it: no round
\* is made of the answer
LostPollEnds ==
    Dropped /\ (session'.pc # session.pc \/ W' # W) => PollThreadEnded'

----------------------------------------------------------------------------
(* The waiting lists once every request is answered *)

\* requests were sent, the sending thread is in no call, and listen_thread
\* is done with the answer to every request
AllAnswered ==
    /\ tcp.message_id > 0
    /\ tcp.call.pc = "idle"
    /\ tcp.handled = DOMAIN tcp.messages

\* C37: on the persistent TCP interface, once every address.subscribe and
\* address.get_history request that was sent has been answered, both waiting
\* lists are empty and is_up_to_date is true, for every interleaving of the
\* sending thread and the listener thread
C37_AsStated ==
    AllAnswered =>
        /\ tcp.addresses_waiting_for_status = <<>>
        /\ tcp.addresses_waiting_for_history = <<>>
        /\ tcp.is_up_to_date

----------------------------------------------------------------------------
(* The requests of one run of the verifier *)

\* the number of get_merkle requests sent for tx_hash so far
Requests(list, tx_hash) ==
    Cardinality({n \in 1..Len(list) : list[n] = tx_hash})

\* C38: within one run of the verifier thread at most one get_merkle request
\* is ever sent for a transaction hash, and none for a transaction that has
\* a verified stamp
C38_OneRequest ==
    [][\A tx_hash \in TxHashes :
          Requests(requested_merkle', tx_hash)
              > Requests(requested_merkle, tx_hash)
          => /\ Requests(requested_merkle, tx_hash) = 0
             /\ Requests(requested_merkle', tx_hash) = 1
             /\ tx_hash \notin DOMAIN verified_tx]_vars

\* a pass of run() has sent nothing for a transaction that is still without
\* a stamp and was asked for before
C38_Witness ==
    /\ spv_last.op = "run"
    /\ spv_last.verdict = "request"
    /\ \E tx_hash \in Range(requested_merkle) :
          /\ tx_hash \in DOMAIN unverified_tx
          /\ tx_hash \notin DOMAIN verified_tx
          /\ unverified_tx[tx_hash] <= get_local_height(S)
          /\ tx_hash \notin DOMAIN merkle_roots
          /\ tx_hash \notin unanswered
          /\ queue = <<>>

====
